---- MODULE Spec2Model ----
(***************************************************************************)
(* A state-machine model of the weForth virtual machine of                 *)
(* src/src/ceforth.cpp: parameter memory as bytes, the dictionary, the two *)
(* stacks, the inner interpreter (nest), the outer interpreter             *)
(* (forth_core) and the driver (forth_vm) with its yield and re-entry.     *)
(*                                                                         *)
(* The build modelled is the one the file links in: DO_WASM set (key,      *)
(* dict_dump, mem_stat and forth_include are defined only there), integer  *)
(* cells (USE_FLOAT 0), a 16-bit IU and a 32-bit DU.  ceforth.h is not     *)
(* part of the sources; what it declares (List, Code, the alignment and    *)
(* flag macros, the array sizes) is modelled from the specification.       *)
(***************************************************************************)
EXTENDS Integers, Sequences, FiniteSets, TLC

\* ------------------------------------------------------------------ bounds
\* capacities of the four List<> arrays (their values live in ceforth.h)
E4_RS_SZ == 4
E4_SS_SZ == 4
E4_PMEM_SZ == 48
\* dictionary slots left for user words after the built-ins
MaxUser == 6
\* host calls (forth_init, forth_vm, forth) a behaviour may make
MaxCalls == 3
\* calls of forth_init after the first
MaxInit == 1
\* turns of nest()'s loop one forth_vm call may take
MaxSteps == 12
\* largest reading of the millisecond clock
MaxMillis == 1
\* values an out-of-range or uninitialised read may produce
Garbage == {0, -1}

\* ------------------------------------------------------------- cell types
SZ_IU == 2
SZ_DU == 4
EXT_FLAG == 32768
UDF_ATTR == 1
IMM_ATTR == 2

U16(x) == x % 65536
U8(x) == x % 256
ALIGN2(sz) == ((sz + 1) \div 2) * 2
ALIGN4(sz) == ((sz + 3) \div 4) * 4
ALIGN16(sz) == ((sz + 15) \div 16) * 16
DALIGN(sz) == ALIGN4(sz)
\* two's complement 32-bit addition without leaving TLC's integers
S16(h) == IF h >= 32768 THEN h - 65536 ELSE h
Add32(a, b) ==
    LET lo == (a % 65536) + (b % 65536)
        hi == (a \div 65536) + (b \div 65536) + (lo \div 65536)
    IN  S16(hi % 65536) * 65536 + (lo % 65536)
BOOL(f) == IF f THEN -1 ELSE 0
\* a product that keeps its first operand
Mul32_keep(a, b) == a
\* two's complement 32-bit multiplication, by bytes
Mul32(a, b) ==
    LET x  == [k \in 0..3 |-> (a \div (256 ^ k)) % 256]
        y  == [k \in 0..3 |-> (b \div (256 ^ k)) % 256]
        c0 == x[0] * y[0]
        c1 == x[0] * y[1] + x[1] * y[0] + (c0 \div 256)
        c2 == x[0] * y[2] + x[1] * y[1] + x[2] * y[0] + (c1 \div 256)
        c3 == x[0] * y[3] + x[1] * y[2] + x[2] * y[1] + x[3] * y[0] + (c2 \div 256)
        r3 == c3 % 256
    IN  (c0 % 256) + 256 * (c1 % 256) + 65536 * (c2 % 256)
        + 16777216 * (IF r3 >= 128 THEN r3 - 256 ELSE r3)
\* the bitwise operators on n-bit operands: f gives the result bit
RECURSIVE Bits(_, _, _, _)
Bits(f, x, y, n) ==
    IF n = 0 THEN 0
    ELSE f[(x % 2) + 1][(y % 2) + 1] + 2 * Bits(f, x \div 2, y \div 2, n - 1)
Bits32(f, a, b) ==
    LET lo == Bits(f, a % 65536, b % 65536, 16)
        hi == Bits(f, (a \div 65536) % 65536, (b \div 65536) % 65536, 16)
    IN  S16(hi) * 65536 + lo
And32(a, b) == Bits32(<<<<0, 0>>, <<0, 1>>>>, a, b)
Or32(a, b) == Bits32(<<<<0, 1>>, <<1, 1>>>>, a, b)
Xor32(a, b) == Bits32(<<<<0, 1>>, <<1, 0>>>>, a, b)

\* ------------------------------------------------------------ opcodes
EXIT == EXT_FLAG + 0
NOP == EXT_FLAG + 1
NEXT == EXT_FLAG + 2
LOOP == EXT_FLAG + 3
LIT == EXT_FLAG + 4
VAR == EXT_FLAG + 5
STR == EXT_FLAG + 6
DOTQ == EXT_FLAG + 7
BRAN == EXT_FLAG + 8
ZBRAN == EXT_FLAG + 9
VBRAN == EXT_FLAG + 10
DOES == EXT_FLAG + 11
FOR == EXT_FLAG + 12
DO == EXT_FLAG + 13
KEY == EXT_FLAG + 14
MAX_OP == EXT_FLAG + 15
USER_AREA == ALIGN16(MAX_OP - EXT_FLAG)
IS_PRIM(w) == (w >= EXT_FLAG) /\ (w < MAX_OP)

\* ------------------------------------------------------------ text
\* The characters of every token the model uses (ASCII codes).
Ch ==
    ("nul " :> <<110,117,108,32>>) @@ ("dup" :> <<100,117,112>>) @@
    ("drop" :> <<100,114,111,112>>) @@ ("over" :> <<111,118,101,114>>) @@
    ("swap" :> <<115,119,97,112>>) @@ ("+" :> <<43>>) @@ ("*" :> <<42>>) @@ ("-" :> <<45>>) @@
    ("case!" :> <<99,97,115,101,33>>) @@ ("base" :> <<98,97,115,101>>) @@
    ("decimal" :> <<100,101,99,105,109,97,108>>) @@ ("hex" :> <<104,101,120>>) @@
    ("key" :> <<107,101,121>>) @@ ("[" :> <<91>>) @@ ("]" :> <<93>>) @@
    ("if" :> <<105,102>>) @@ ("else" :> <<101,108,115,101>>) @@
    ("then" :> <<116,104,101,110>>) @@ ("begin" :> <<98,101,103,105,110>>) @@
    ("again" :> <<97,103,97,105,110>>) @@ ("until" :> <<117,110,116,105,108>>) @@
    ("while" :> <<119,104,105,108,101>>) @@ ("repeat" :> <<114,101,112,101,97,116>>) @@
    ("for" :> <<102,111,114>>) @@ ("next" :> <<110,101,120,116>>) @@
    ("aft" :> <<97,102,116>>) @@ ("do" :> <<100,111>>) @@ ("i" :> <<105>>) @@
    ("leave" :> <<108,101,97,118,101>>) @@ ("loop" :> <<108,111,111,112>>) @@
    (">r" :> <<62,114>>) @@ ("r>" :> <<114,62>>) @@ ("r@" :> <<114,64>>) @@ (":" :> <<58>>) @@
    (";" :> <<59>>) @@ ("exit" :> <<101,120,105,116>>) @@
    ("variable" :> <<118,97,114,105,97,98,108,101>>) @@
    ("constant" :> <<99,111,110,115,116,97,110,116>>) @@
    ("immediate" :> <<105,109,109,101,100,105,97,116,101>>) @@
    ("exec" :> <<101,120,101,99>>) @@ ("create" :> <<99,114,101,97,116,101>>) @@
    ("does>" :> <<100,111,101,115,62>>) @@ ("@" :> <<64>>) @@ ("!" :> <<33>>) @@
    ("," :> <<44>>) @@ ("allot" :> <<97,108,108,111,116>>) @@
    ("abort" :> <<97,98,111,114,116>>) @@ ("here" :> <<104,101,114,101>>) @@ ("'" :> <<39>>) @@
    ("depth" :> <<100,101,112,116,104>>) @@ ("forget" :> <<102,111,114,103,101,116>>) @@
    ("boot" :> <<98,111,111,116>>) @@ ("a" :> <<97>>) @@ ("b" :> <<98>>) @@ ("c" :> <<99>>) @@
    ("zz" :> <<122,122>>) @@ ("0" :> <<48>>) @@ ("1" :> <<49>>) @@ ("2" :> <<50>>) @@
    ("3" :> <<51>>) @@ ("$f" :> <<36,102>>) @@ ("" :> <<>>) @@ ("-1" :> <<45,49>>) @@
    ("included" :> <<105,110,99,108,117,100,101,100>>) @@ ("b\"" :> <<98,34>>) @@
    ("c\"" :> <<99,34>>) @@
    ("s\"" :> <<115,34>>) @@ (".\"" :> <<46,34>>) @@ ("ab\"" :> <<97,98,34>>) @@
    ("16" :> <<49,54>>) @@ ("44" :> <<52,52>>) @@
    ("%11" :> <<37,49,49>>) @@ ("%12" :> <<37,49,50>>) @@ ("#12" :> <<35,49,50>>) @@
    ("&12" :> <<38,49,50>>) @@ ("$1f" :> <<36,49,102>>) @@ ("#1f" :> <<35,49,102>>) @@
    ("12" :> <<49,50>>) @@ ("1f" :> <<49,102>>) @@ ("0x1f" :> <<48,120,49,102>>) @@
    ("$-f" :> <<36,45,102>>) @@ ("1g" :> <<49,103>>) @@
    ("2dup" :> <<50,100,117,112>>) @@ ("and" :> <<97,110,100>>) @@ ("or" :> <<111,114>>) @@
    ("xor" :> <<120,111,114>>) @@ ("65537" :> <<54,53,53,51,55>>) @@
    ("2147483647" :> <<50,49,52,55,52,56,51,54,52,55>>) @@
    ("A" :> <<65>>) @@ ("B" :> <<66>>)

WS == {32, 9, 10}
\* a line of input: the tokens separated by single blanks
RECURSIVE Text(_)
Text(toks) ==
    IF toks = <<>> THEN <<>>
    ELSE IF Len(toks) = 1 THEN Ch[toks[1]]
    ELSE Ch[toks[1]] \o <<32>> \o Text(Tail(toks))

\* ------------------------------------------------------------ built-ins
\* The words dict_compile() adds, in its order (the subset the model
\* executes); imm is the IMMD/CODE choice of the macro that adds the word.
Builtins == <<
    [name |-> "nul ", imm |-> FALSE], [name |-> "dup", imm |-> FALSE],
    [name |-> "drop", imm |-> FALSE], [name |-> "over", imm |-> FALSE],
    [name |-> "swap", imm |-> FALSE], [name |-> "2dup", imm |-> FALSE],
    [name |-> "+", imm |-> FALSE], [name |-> "*", imm |-> FALSE],
    [name |-> "-", imm |-> FALSE], [name |-> "and", imm |-> FALSE],
    [name |-> "or", imm |-> FALSE], [name |-> "xor", imm |-> FALSE],
    [name |-> "case!", imm |-> FALSE], [name |-> "base", imm |-> FALSE],
    [name |-> "decimal", imm |-> FALSE], [name |-> "hex", imm |-> FALSE],
    [name |-> "key", imm |-> TRUE], [name |-> "[", imm |-> FALSE],
    [name |-> "]", imm |-> FALSE],
    [name |-> "s\"", imm |-> TRUE], [name |-> ".\"", imm |-> TRUE],
    [name |-> "if", imm |-> TRUE],
    [name |-> "else", imm |-> TRUE], [name |-> "then", imm |-> TRUE],
    [name |-> "begin", imm |-> TRUE], [name |-> "again", imm |-> TRUE],
    [name |-> "until", imm |-> TRUE], [name |-> "while", imm |-> TRUE],
    [name |-> "repeat", imm |-> TRUE], [name |-> "for", imm |-> TRUE],
    [name |-> "next", imm |-> TRUE], [name |-> "aft", imm |-> TRUE],
    [name |-> "do", imm |-> TRUE], [name |-> "i", imm |-> FALSE],
    [name |-> "leave", imm |-> FALSE], [name |-> "loop", imm |-> TRUE],
    [name |-> ">r", imm |-> FALSE], [name |-> "r>", imm |-> FALSE],
    [name |-> "r@", imm |-> FALSE], [name |-> ":", imm |-> FALSE],
    [name |-> ";", imm |-> TRUE], [name |-> "exit", imm |-> FALSE],
    [name |-> "variable", imm |-> FALSE], [name |-> "constant", imm |-> FALSE],
    [name |-> "immediate", imm |-> TRUE], [name |-> "exec", imm |-> FALSE],
    [name |-> "create", imm |-> FALSE], [name |-> "does>", imm |-> TRUE],
    [name |-> "@", imm |-> FALSE], [name |-> "!", imm |-> FALSE],
    [name |-> ",", imm |-> FALSE], [name |-> "allot", imm |-> FALSE],
    [name |-> "abort", imm |-> FALSE], [name |-> "here", imm |-> FALSE],
    [name |-> "'", imm |-> FALSE], [name |-> "depth", imm |-> FALSE],
    [name |-> "forget", imm |-> FALSE], [name |-> "included", imm |-> FALSE],
    [name |-> "boot", imm |-> FALSE]
>>
NBuiltins == Len(Builtins)
E4_DICT_SZ == (MaxInit + 1) * NBuiltins + MaxUser
\* xt - XT0 of a built-in: its position among the lambdas, "nul " first
XtOff(xt) ==
    IF \E k \in 1..NBuiltins : Builtins[k].name = xt
    THEN (CHOOSE k \in 1..NBuiltins : Builtins[k].name = xt) - 1
    ELSE 32767
\* the built-in Code::exec(ix) reaches, "" when XT0 + ix is no built-in
XtAt(ix) == IF ix \in 0..(NBuiltins - 1) THEN Builtins[ix + 1].name ELSE ""
\* dict[i].name is a pointer: a >= 0 is the pmem offset of a name field,
\* -k the string literal of the k-th built-in
LitName(k) == -k
NullCode == [name |-> 0, xt |-> "", attr |-> 0, pfa |-> 0]

\* ------------------------------------------------------------ List<T,N>
ListAt(l, n, i, g) ==
    LET j == IF i < 0 THEN l.idx + i ELSE i
    IN  IF j \in 0..(n - 1) THEN l.v[j] ELSE g
ListPush(l, n, t) ==
    [idx |-> l.idx + 1,
     v   |-> IF l.idx \in 0..(n - 1) THEN [l.v EXCEPT ![l.idx] = t] ELSE l.v]
ListPop(l) == [l EXCEPT !.idx = @ - 1]
ListTop(l, n, g) == IF (l.idx - 1) \in 0..(n - 1) THEN l.v[l.idx - 1] ELSE g
ListClear(l, i) == [l EXCEPT !.idx = i]
ListSet(l, n, i, t) ==
    LET j == IF i < 0 THEN l.idx + i ELSE i
    IN  IF j \in 0..(n - 1) THEN [l EXCEPT !.v[j] = t] ELSE l

\* ------------------------------------------------------------ pmem access
HERE(s) == s.pmem.idx
Rd8(s, a, g) == IF a \in 0..(E4_PMEM_SZ - 1) THEN s.pmem.v[a] ELSE U8(g)
IGET(s, ip, g) == Rd8(s, U16(ip), g) + 256 * Rd8(s, U16(ip) + 1, g)
CELL(s, a, g) ==
    LET b3 == Rd8(s, a + 3, g)
    IN  Rd8(s, a, g) + 256 * Rd8(s, a + 1, g) + 65536 * Rd8(s, a + 2, g)
        + 16777216 * (IF b3 >= 128 THEN b3 - 256 ELSE b3)
BytesIU(i) == << U8(i), U8(i \div 256) >>
BytesDU(d) == << U8(d), U8(d \div 256), U8(d \div 65536), U8(d \div 16777216) >>
WrBytes(s, a, bs) ==
    [s EXCEPT !.pmem.v = [x \in 0..(E4_PMEM_SZ - 1) |->
        IF x \in a..(a + Len(bs) - 1) THEN bs[x - a + 1] ELSE @[x]]]
PmemPush(s, bs) == [WrBytes(s, s.pmem.idx, bs) EXCEPT !.pmem.idx = @ + Len(bs)]
SETJMP(s, a) == WrBytes(s, a, BytesIU(HERE(s)))
\* the C string at pmem offset a (reading stops at the end of the array)
RECURSIVE CStr(_, _, _)
CStr(s, a, g) ==
    IF a >= E4_PMEM_SZ \/ a < 0 \/ Rd8(s, a, g) = 0 THEN <<>>
    ELSE <<Rd8(s, a, g)>> \o CStr(s, a + 1, g)
NameOf(s, p, g) == IF p < 0 THEN Ch[Builtins[-p].name] ELSE CStr(s, p, g)
STRLEN(str) == ALIGN2(Len(str) + 1)
\* the sz bytes push(name, sz) copies: the string, its NUL, and when sz is
\* one more than that the byte that follows the NUL in the source buffer
\* push(s, sz) copying the string and its NUL only
StrBytes_unpadded(str, g) == str \o <<0>>
StrBytes(str, g) ==
    str \o <<0>> \o (IF STRLEN(str) > Len(str) + 1 THEN <<U8(g)>> ELSE <<>>)

Sub32(a, b) ==
    LET lo == (a % 65536) - (b % 65536)
        hi == (a \div 65536) - (b \div 65536) + (lo \div 65536)
    IN  S16(hi % 65536) * 65536 + (lo % 65536)
\* &pmem[a]: List::operator[] counts a negative index back from idx
PAddr(s, a) == IF a < 0 THEN s.pmem.idx + a ELSE a

\* ------------------------------------------------------------ stacks
SsPush(s, t) == [s EXCEPT !.ss = ListPush(@, E4_SS_SZ, t)]
SsPopVal(s, g) == ListTop(s.ss, E4_SS_SZ, g)
SsPop(s) == [s EXCEPT !.ss = ListPop(@)]
RsPush(s, t) == [s EXCEPT !.rs = ListPush(@, E4_RS_SZ, t)]
RsPopVal(s, g) == ListTop(s.rs, E4_RS_SZ, g)
RsPop(s) == [s EXCEPT !.rs = ListPop(@)]
PUSH(s, v) == [SsPush(s, s.top) EXCEPT !.top = v]
POP(s, g) == [SsPop(s) EXCEPT !.top = SsPopVal(s, g)]
\* UNNEST that holds whatever address it pops
UNNEST_hold(s, g) == [RsPop(s) EXCEPT !.IP = U16(RsPopVal(s, g)), !.VM = "HOLD"]
UNNEST(s, g) ==
    LET ip == U16(RsPopVal(s, g))
    IN  [RsPop(s) EXCEPT !.IP = ip, !.VM = IF ip # 0 THEN "HOLD" ELSE "STOP"]
\* fout << text << msg: the output keeps the text (a name, an idiom) and the
\* kind of message that follows it
Say(s, text, msg) == [s EXCEPT !.fout = Append(@, <<text, msg>>)]

\* ------------------------------------------------------------ dictionary
Lower(c) == IF c \in 65..90 THEN c + 32 ELSE c
StrEq(s, s1, s2) ==
    IF s.ucase
    THEN /\ Len(s1) = Len(s2)
         /\ \A k \in 1..Len(s1) : Lower(s1[k]) = Lower(s2[k])
    ELSE s1 = s2
DictAt(s, i) == ListAt(s.dict, E4_DICT_SZ, i, NullCode)
\* the loop of find, for (i = dict.idx - 1; !v && i > 0; --i), over the
\* indices hi down to lo: the upper half is scanned first and the lower half
\* only when the upper gave no match, so entries are compared in the loop's
\* order, from hi downward, up to the first match
RECURSIVE find_from(_, _, _, _, _)
find_from(s, str, lo, hi, g) ==
    IF hi < lo THEN 0
    ELSE IF hi = lo
    THEN (IF StrEq(s, str, NameOf(s, DictAt(s, hi).name, g)) THEN hi ELSE 0)
    ELSE LET mid == (lo + hi) \div 2
             v   == find_from(s, str, mid + 1, hi, g)
         IN  IF v # 0 THEN v ELSE find_from(s, str, lo, mid, g)
\* find returning the oldest match
find_oldest(s, str, g) ==
    LET h == {i \in 1..(s.dict.idx - 1) :
                  StrEq(s, str, NameOf(s, DictAt(s, i).name, g))}
    IN  IF h = {} THEN 0 ELSE CHOOSE i \in h : \A j \in h : i <= j
find(s, str, g) == find_from(s, str, 1, s.dict.idx - 1, g)
IS_UDF(s, w) == (DictAt(s, w).attr % 2) = 1
IS_IMM(s, w) == ((DictAt(s, w).attr \div 2) % 2) = 1

colon(s, name, g) ==
    LET nfa == HERE(s)
        s1  == PmemPush(s, StrBytes(name, g))
        c   == [name |-> nfa, xt |-> "~0", attr |-> UDF_ATTR, pfa |-> HERE(s1)]
    IN  [s1 EXCEPT !.dict = ListPush(@, E4_DICT_SZ, c)]
add_iu(s, i) == PmemPush(s, BytesIU(i))
add_du(s, v) == PmemPush(s, BytesDU(v))
add_str(s, str, g) == PmemPush(s, StrBytes(str, g))
\* add_w taking every dictionary word for a colon word
add_w_udf(s, w, g) ==
    LET c  == DictAt(s, w)
        ip == IF IS_PRIM(w) THEN w
              ELSE IF w >= EXT_FLAG THEN U16(g)
              ELSE (IF c.pfa >= EXT_FLAG THEN c.pfa ELSE c.pfa + EXT_FLAG)
    IN  add_iu(s, ip)
add_w(s, w, g) ==
    LET c  == DictAt(s, w)
        ip == IF IS_PRIM(w) THEN w
              ELSE IF w >= EXT_FLAG THEN U16(g)
              ELSE IF (c.attr % 2) = 1
                   THEN (IF c.pfa >= EXT_FLAG THEN c.pfa ELSE c.pfa + EXT_FLAG)
                   ELSE XtOff(c.xt)
    IN  add_iu(s, ip)
add_var(s, op, g) ==
    LET s1 == add_w(s, op, g)
        s2 == IF op = VBRAN THEN add_iu(s1, 0) ELSE s1
        s3 == [s2 EXCEPT !.pmem.idx = DALIGN(@)]
    IN  IF op = VAR THEN add_du(s3, 0) ELSE s3
\* def_word returning 1 for the empty name too
DefOk_always(name) == TRUE
DefOk(name) == name # <<>>
\* def_word that only warns when the name exists
def_word_warn(s, name, g) ==
    IF name = <<>> THEN Say(s, <<>>, "name?")
    ELSE IF find(s, name, g) # 0 THEN Say(s, name, "reDef?")
    ELSE colon(s, name, g)
def_word(s, name, g) ==
    IF name = <<>> THEN Say(s, <<>>, "name?")
    ELSE colon(IF find(s, name, g) # 0 THEN Say(s, name, "reDef?") ELSE s, name, g)

\* ------------------------------------------------------------ input stream
\* fin >> x: skip blanks, take the characters up to the next blank
TokStart(f) ==
    IF \E k \in 1..Len(f) : f[k] \notin WS
    THEN CHOOSE k \in 1..Len(f) : f[k] \notin WS /\ \A j \in 1..(k - 1) : f[j] \in WS
    ELSE 0
TokEnd(f) ==
    LET b == TokStart(f)
    IN  IF \E k \in (b + 1)..Len(f) : f[k] \in WS
        THEN (CHOOSE k \in (b + 1)..Len(f) :
                 f[k] \in WS /\ \A j \in (b + 1)..(k - 1) : f[j] \notin WS) - 1
        ELSE Len(f)
HasTok(f) == TokStart(f) # 0
NextTok(f) == IF HasTok(f) THEN SubSeq(f, TokStart(f), TokEnd(f)) ELSE <<>>
AfterTok(f) == IF HasTok(f) THEN SubSeq(f, TokEnd(f) + 1, Len(f)) ELSE <<>>
\* word(): the next idiom, empty when the input is exhausted
word(s) == NextTok(s.fin)
Eat(s) == [s EXCEPT !.fin = AfterTok(@)]

\* ------------------------------------------------------------ calls
\* a control stack of the C frames in progress, innermost last:
\*   "loop"   forth_vm at the head of its while loop
\*   "after"  forth_vm after forth_core() or nest() returned
\*   "exit"   forth_vm after its loop
\*   "nest"   nest() at the head of its while loop
\*   "trap"   the process has crashed (a call through a bad xt)
Trap(s) == [s EXCEPT !.cs = <<"trap">>]
\* the variables, described with the state below
VARIABLES IP, VM, top, compile, ucase, base, dflt, rs, ss, dict, pmem,
          fin, fout, t0, bidx, resume, cs, ret, now, calls, ev, steps, inits, susp,
          last, open, xq, aes

EnterNest(s) == [s EXCEPT !.VM = "NEST", !.cs = Append(@, "nest")]

RECURSIVE Exec(_, _, _)
RECURSIVE CALL(_, _, _)
CALL(s, w, g) ==
    IF IS_UDF(s, w)
    THEN EnterNest([RsPush(s, 0) EXCEPT !.IP = DictAt(s, w).pfa])
    ELSE Exec(s, DictAt(s, w).xt, g)

\* scan(c): getline(fin, pad, c) takes the input up to c, or all of it; on
\* an input already at its end getline fails and pad keeps the idiom word()
\* read last, taken to be the name of the running word
ScanEnd(f, c) ==
    IF \E k \in 1..Len(f) : f[k] = c
    THEN CHOOSE k \in 1..Len(f) : f[k] = c /\ \A j \in 1..(k - 1) : f[j] # c
    ELSE 0
scan(s, c, tok) ==
    LET k == ScanEnd(s.fin, c)
    IN  IF s.fin = <<>> THEN tok
        ELSE IF k = 0 THEN s.fin ELSE SubSeq(s.fin, 1, k - 1)
Scanned(s, c) ==
    LET k == ScanEnd(s.fin, c)
    IN  [s EXCEPT !.fin = IF k = 0 THEN <<>> ELSE SubSeq(@, k + 1, Len(@))]
\* s_quote leaving HERE after the string
squote_here_end(h0, h1) == h1
\* HERE = h0
squote_here(h0, h1) == h0
\* s = scan('"') + 1 skips the blank; past an empty pad it reads what lies
\* behind the NUL
s_quote(s, op, tok, g) ==
    LET pad == scan(s, 34, tok)
        str == IF pad # <<>> THEN Tail(pad) ELSE IF g = 0 THEN <<>> ELSE <<U8(g)>>
        s1  == Scanned(s, 34)
        h0  == HERE(s1)
    IN  IF s1.compile THEN add_str(add_w(s1, op, g), str, g)
        ELSE [PUSH(PUSH(add_str(s1, str, g), h0), STRLEN(str))
                 EXCEPT !.pmem.idx = squote_here(h0, @)]
\* @ reading an IU at every address
fetch_iu(s, w, g) == IGET(s, w, g)
\* w < USER_AREA ? (DU)IGET(w) : CELL(w)
fetch(s, w, g) == IF w < USER_AREA THEN IGET(s, w, g) ELSE CELL(s, w, g)
\* ss[-2] for ss[-1]
ss_back_two(s, g) == ListAt(s.ss, E4_SS_SZ, -2, g)
\* ss[-1], the cell under TOP
ss_back(s, g) == ListAt(s.ss, E4_SS_SZ, -1, g)
\* the built-in words of dict_compile(): xt names the lambda
Exec(s, xt, g) ==
    LET p    == POP(s, g)                 \* state after one POP()
        pp   == POP(p, g)                 \* state after two
        sp   == SsPopVal(s, g)            \* what ss.pop() returns
        nm   == word(s)
        e    == Eat(s)
    IN
    CASE xt = "nul " -> s
      [] xt = "dup"  -> PUSH(s, s.top)
      [] xt = "drop" -> [SsPop(s) EXCEPT !.top = sp]
      [] xt = "over" -> PUSH(s, ss_back(s, g))
      [] xt = "swap" -> PUSH(SsPop(s), sp)
      [] xt = "2dup" -> LET s1 == PUSH(s, ss_back(s, g))
                        IN  PUSH(s1, ss_back(s1, g))
      [] xt = "+"    -> [SsPop(s) EXCEPT !.top = Add32(s.top, sp)]
      [] xt = "*"    -> [SsPop(s) EXCEPT !.top = Mul32(s.top, sp)]
      [] xt = "-"    -> [SsPop(s) EXCEPT !.top = Sub32(sp, s.top)]
      [] xt = "and"  -> [SsPop(s) EXCEPT !.top = And32(s.top, sp)]
      [] xt = "or"   -> [SsPop(s) EXCEPT !.top = Or32(s.top, sp)]
      [] xt = "xor"  -> [SsPop(s) EXCEPT !.top = Xor32(s.top, sp)]
      [] xt = "case!" -> [p EXCEPT !.ucase = (s.top = 0)]
      [] xt = "base" -> PUSH(s, s.base)
      [] xt = "decimal" -> WrBytes(s, s.base, BytesIU(10))
      [] xt = "hex"  -> WrBytes(s, s.base, BytesIU(16))
      [] xt = "key"  -> IF s.compile THEN add_w(s, KEY, g) ELSE s
      [] xt = "["    -> [s EXCEPT !.compile = FALSE]
      [] xt = "]"    -> [s EXCEPT !.compile = TRUE]
      [] xt = "s\"" -> s_quote(s, STR, Ch[xt], g)
      [] xt = ".\"" -> s_quote(s, DOTQ, Ch[xt], g)
      [] xt = "if"   -> LET s1 == add_w(s, ZBRAN, g)
                        IN  add_iu(PUSH(s1, HERE(s1)), 0)
      [] xt = "else" -> LET s1 == add_w(s, BRAN, g)
                            h  == HERE(s1)
                            s2 == add_iu(s1, 0)
                            s3 == SETJMP(POP(s2, g), PAddr(s2, s2.top))
                        IN  PUSH(s3, h)
      [] xt = "then" -> SETJMP(p, PAddr(s, s.top))
      [] xt = "begin" -> PUSH(s, HERE(s))
      [] xt = "again" -> LET s1 == add_w(s, BRAN, g)
                         IN  add_iu(POP(s1, g), s1.top)
      [] xt = "until" -> LET s1 == add_w(s, ZBRAN, g)
                         IN  add_iu(POP(s1, g), s1.top)
      [] xt = "while" -> LET s1 == add_w(s, ZBRAN, g)
                         IN  add_iu(PUSH(s1, HERE(s1)), 0)
      [] xt = "repeat" -> LET s1 == add_w(s, BRAN, g)
                              t  == s1.top
                              s2 == POP(s1, g)
                              s3 == add_iu(POP(s2, g), s2.top)
                          IN  SETJMP(s3, PAddr(s3, t))
      [] xt = "for"  -> LET s1 == add_w(s, FOR, g) IN PUSH(s1, HERE(s1))
      [] xt = "next" -> LET s1 == add_w(s, NEXT, g)
                        IN  add_iu(POP(s1, g), s1.top)
      [] xt = "aft"  -> LET s1 == add_w(p, BRAN, g)
                            h  == HERE(s1)
                            s2 == add_iu(s1, 0)
                        IN  PUSH(PUSH(s2, HERE(s2)), h)
      [] xt = "do"   -> LET s1 == add_w(s, DO, g) IN PUSH(s1, HERE(s1))
      [] xt = "i"    -> PUSH(s, ListAt(s.rs, E4_RS_SZ, -1, g))
      [] xt = "leave" -> UNNEST(RsPop(RsPop(s)), g)
      [] xt = "loop" -> LET s1 == add_w(s, LOOP, g)
                        IN  add_iu(POP(s1, g), s1.top)
      [] xt = ">r"   -> RsPush(p, s.top)
      [] xt = "r>"   -> PUSH(RsPop(s), RsPopVal(s, g))
      [] xt = "r@"   -> PUSH(s, ListAt(s.rs, E4_RS_SZ, -1, g))
      [] xt = ":"    -> [def_word(e, nm, g) EXCEPT !.compile = DefOk(nm)]
      [] xt = ";"    -> [add_w(s, EXIT, g) EXCEPT !.compile = FALSE]
      [] xt = "exit" -> UNNEST(s, g)
      [] xt = "variable" -> add_var(def_word(e, nm, g), VAR, g)
      [] xt = "constant" ->
             LET s1 == add_w(def_word(e, nm, g), LIT, g)
             IN  add_w(add_du(POP(s1, g), s1.top), EXIT, g)
      [] xt = "immediate" ->
             LET c == ListAt(s.dict, E4_DICT_SZ, -1, NullCode)
                 a == IF ((c.attr \div 2) % 2) = 1 THEN c.attr ELSE c.attr + IMM_ATTR
             IN  [s EXCEPT !.dict = ListSet(@, E4_DICT_SZ, -1, [c EXCEPT !.attr = a])]
      [] xt = "exec" -> CALL(p, U16(s.top), g)
      [] xt = "create" -> add_var(def_word(e, nm, g), VBRAN, g)
      [] xt = "does>" -> add_w(s, DOES, g)
      [] xt = "@"    -> PUSH(p, fetch(p, U16(s.top), g))
      [] xt = "!"    -> WrBytes(pp, U16(s.top), BytesDU(p.top))
      [] xt = ","    -> add_du(p, s.top)
      [] xt = "allot" -> LET n == U16(s.top)
                         IN  PmemPush(p, [k \in 1..(SZ_DU * ((n + SZ_DU - 1) \div SZ_DU)) |-> 0])
      [] xt = "abort" -> [s EXCEPT !.top = -1, !.ss = ListClear(@, 0), !.rs = ListClear(@, 0)]
      [] xt = "here" -> PUSH(s, HERE(s))
      [] xt = "'"    -> LET w == find(e, nm, g)
                        IN  IF w # 0 THEN PUSH(e, w) ELSE e
      [] xt = "depth" -> PUSH(s, s.ss.idx)
      [] xt = "forget" ->
             LET w == find(e, nm, g)
                 b == find(e, Ch["boot"], g) + 1
                 c == DictAt(e, w)
             IN  IF w = 0 THEN e
                 ELSE IF w > b
                 THEN [e EXCEPT !.pmem.idx = c.pfa - STRLEN(NameOf(e, c.name, g)),
                                !.dict = ListClear(@, w)]
                 ELSE [e EXCEPT !.pmem.idx = USER_AREA, !.dict = ListClear(@, b)]
      [] xt = "included" -> [s EXCEPT !.cs = Append(@, "include")]
      [] xt = "boot" -> [s EXCEPT !.dict = ListClear(@, find(s, Ch["boot"], g) + 1),
                                  !.pmem.idx = SZ_DU]
      [] OTHER -> Trap(s)

\* ------------------------------------------------------------ numbers
\* strtol(): an optional sign, in base 16 or 0 an optional "0x" before a hex
\* digit, then the longest run of digits of the base; base 0 takes the base
\* from the text ("0x" 16, a leading "0" 8, else 10)
DigitVal(c) ==
    IF c \in 48..57 THEN c - 48
    ELSE IF c \in 97..122 THEN c - 87
    ELSE IF c \in 65..90 THEN c - 55
    ELSE 99
\* the base override left out: always the current BASE
NumBase_current(s, idiom, g) == IGET(s, s.base, g)
\* int b = *base; switch (*idiom) { case '%': b = 2; ... }
NumBase(s, idiom, g) ==
    IF idiom # <<>> /\ idiom[1] = 37 THEN 2
    ELSE IF idiom # <<>> /\ idiom[1] \in {38, 35} THEN 10
    ELSE IF idiom # <<>> /\ idiom[1] = 36 THEN 16
    ELSE IGET(s, s.base, g)
NumRest(idiom) ==
    IF idiom # <<>> /\ idiom[1] \in {37, 38, 35, 36} THEN Tail(idiom) ELSE idiom
NumSigned(r) == r # <<>> /\ r[1] \in {43, 45}
NumBody(r) == IF NumSigned(r) THEN Tail(r) ELSE r
NumDigits(body, b) ==
    IF \E k \in 1..Len(body) : DigitVal(body[k]) >= b
    THEN (CHOOSE k \in 1..Len(body) :
             DigitVal(body[k]) >= b /\ \A j \in 1..(k - 1) : DigitVal(body[j]) < b) - 1
    ELSE Len(body)
\* the magnitude of the first n digits, -1 once it exceeds LONG_MAX (ERANGE;
\* a long has 32 bits here)
RECURSIVE NumAcc(_, _, _)
NumAcc(body, n, b) ==
    IF n = 0 THEN 0
    ELSE LET hi == NumAcc(body, n - 1, b)
             d  == DigitVal(body[n])
         IN  IF hi < 0 \/ hi > (2147483647 - d) \div b THEN -1 ELSE hi * b + d
NumBadBase(b) == b = 1 \/ b > 36
NumHex(body, b) ==
    /\ b \in {0, 16} /\ Len(body) >= 3
    /\ body[1] = 48 /\ body[2] \in {120, 88} /\ DigitVal(body[3]) < 16
NumRadix(body, b) ==
    IF b # 0 THEN b
    ELSE IF NumHex(body, b) THEN 16
    ELSE IF body # <<>> /\ body[1] = 48 THEN 8 ELSE 10
NumRun(body, b) == IF NumHex(body, b) THEN SubSeq(body, 3, Len(body)) ELSE body
parse_err(s, idiom, g) ==
    LET b0   == NumBase(s, idiom, g)
        r    == NumRest(idiom)
        b    == NumRadix(NumBody(r), b0)
        body == NumRun(NumBody(r), b0)
        n    == NumDigits(body, b)
    IN  \/ NumBadBase(b0)
        \/ NumAcc(body, n, b) < 0
        \/ IF n = 0 THEN r # <<>> ELSE n < Len(body)
parse_number(s, idiom, g) ==
    LET b0   == NumBase(s, idiom, g)
        r    == NumRest(idiom)
        b    == NumRadix(NumBody(r), b0)
        body == NumRun(NumBody(r), b0)
        m    == NumAcc(body, NumDigits(body, b), b)
    IN  IF NumBadBase(b0) THEN 0
        ELSE IF m < 0 THEN (IF NumSigned(r) /\ r[1] = 45 THEN -2147483647 - 1 ELSE 2147483647)
        ELSE IF NumSigned(r) /\ r[1] = 45 THEN 0 - m ELSE m

\* ------------------------------------------------------------ forth_core
\* the error branch without the reset of compile
core_err_keep(q, idiom) == [Say(q, idiom, "?") EXCEPT !.VM = "STOP"]
\* if (err) { fout << idiom << "? "; compile = false; VM = STOP; }
core_err(q, idiom) == [Say(q, idiom, "?") EXCEPT !.compile = FALSE, !.VM = "STOP"]
\* a found word executed whatever the mode
core_compiles_never(s, w) == FALSE
\* if (compile && !IS_IMM(w)) add_w(w); else CALL(w);
core_compiles(s, w) == s.compile /\ ~IS_IMM(s, w)
forth_core(s, idiom, g) ==
    LET q == [s EXCEPT !.VM = "QUERY"]
        w == find(q, idiom, g)
        n == parse_number(q, idiom, g)
        f == IF parse_err(q, idiom, g) THEN core_err(q, idiom) ELSE q
    IN  IF w # 0
        THEN (IF core_compiles(q, w) THEN add_w(q, w, g) ELSE CALL(q, w, g))
        ELSE IF f.compile THEN add_du(add_w(f, LIT, g), n)
        ELSE PUSH(f, n)

\* the idiom is neither a word of the dictionary nor a number
Failed(s, idiom) ==
    \E g \in Garbage : find(s, idiom, g) = 0 /\ parse_err(s, idiom, g)

\* ------------------------------------------------------------ nest
\* one turn of nest()'s while loop: fetch, advance, dispatch
\* ZBRAN taking the branch on a non-zero flag
zbran_inverted(t) == t = 0
\* IP = POP() ? IP+sizeof(IU) : IGET(IP)
zbran_skip(t) == t # 0
\* NEXT looping while the counter is above 0
next_again_pos(c) == c > 0
\* GT(rs[-1] -= DU1, -DU1)
next_again(c) == c > -1
\* GT(rs[-2], rs[-1] += DU1)
loop_again(lim, c) == lim > c
\* VBRAN pushing the address of its own target field
vbran_data_noskip(ip) == DALIGN(ip)
\* PUSH(DALIGN(IP + sizeof(IU)))
vbran_data(ip) == DALIGN(ip + SZ_IU)
NestOp(s, g) ==
    LET ix == IGET(s, s.IP, g)
        n  == [s EXCEPT !.IP = U16(@ + SZ_IU)]
        ip == n.IP
        r1 == ListAt(n.rs, E4_RS_SZ, -1, g)
        r2 == ListAt(n.rs, E4_RS_SZ, -2, g)
        str == CStr(n, ip, g)
    IN
    CASE ix = EXIT -> UNNEST(n, g)
      [] ix = NOP  -> n
      [] ix = NEXT ->
             LET c  == Sub32(r1, 1)
                 n1 == [n EXCEPT !.rs = ListSet(@, E4_RS_SZ, -1, c)]
             IN  IF next_again(c) THEN [n1 EXCEPT !.IP = IGET(n1, ip, g)]
                 ELSE [RsPop(n1) EXCEPT !.IP = U16(ip + SZ_IU)]
      [] ix = LOOP ->
             LET c  == Add32(r1, 1)
                 n1 == [n EXCEPT !.rs = ListSet(@, E4_RS_SZ, -1, c)]
             IN  IF loop_again(r2, c) THEN [n1 EXCEPT !.IP = IGET(n1, ip, g)]
                 ELSE [RsPop(RsPop(n1)) EXCEPT !.IP = U16(ip + SZ_IU)]
      [] ix = LIT  -> [SsPush(n, n.top) EXCEPT !.top = CELL(n, ip, g), !.IP = U16(ip + SZ_DU)]
      [] ix = VAR  -> UNNEST(PUSH(n, DALIGN(ip)), g)
      [] ix = STR  -> [PUSH(PUSH(n, ip), STRLEN(str)) EXCEPT !.IP = U16(ip + STRLEN(str))]
      [] ix = DOTQ -> [Say(n, str, "dotq") EXCEPT !.IP = U16(ip + STRLEN(str))]
      [] ix = BRAN -> [n EXCEPT !.IP = IGET(n, ip, g)]
      [] ix = ZBRAN ->
             [POP(n, g) EXCEPT !.IP = IF zbran_skip(n.top) THEN U16(ip + SZ_IU) ELSE IGET(n, ip, g)]
      [] ix = VBRAN ->
             LET n1 == [PUSH(n, vbran_data(ip)) EXCEPT !.IP = IGET(n, ip, g)]
             IN  IF n1.IP = 0 THEN UNNEST(n1, g) ELSE n1
      [] ix = DOES ->
             LET LAST == ListAt(n.dict, E4_DICT_SZ, -1, NullCode)
             IN  UNNEST(WrBytes(n, U16(LAST.pfa) + SZ_IU, BytesIU(ip)), g)
      [] ix = FOR  -> RsPush(POP(n, g), n.top)
      [] ix = DO   ->
             LET n1 == RsPush(SsPop(n), SsPopVal(n, g))
             IN  RsPush(POP(n1, g), n1.top)
      [] ix = KEY  -> [n EXCEPT !.VM = "IO"]
      [] OTHER ->
             IF ix >= EXT_FLAG
             THEN [RsPush(n, ip) EXCEPT !.IP = ix % EXT_FLAG]
             ELSE Exec(n, XtAt(ix), g)

\* ------------------------------------------------------------ forth_init
BuiltinCode(k) ==
    [name |-> LitName(k), xt |-> Builtins[k].name,
     attr |-> IF Builtins[k].imm THEN IMM_ATTR ELSE 0, pfa |-> 0]
dict_compile(s) ==
    [s EXCEPT !.dict =
        [idx |-> @.idx + NBuiltins,
         v   |-> [j \in 0..(E4_DICT_SZ - 1) |->
                    IF j \in @.idx..(@.idx + NBuiltins - 1)
                    THEN BuiltinCode(j - @.idx + 1) ELSE @.v[j]]]]
\* the padding loop: one 0xffff IU for every even offset from idx up to USER_AREA
UserPad(idx) ==
    IF idx >= USER_AREA THEN <<>>
    ELSE [k \in 1..(SZ_IU * ((USER_AREA - idx + SZ_IU - 1) \div SZ_IU)) |-> 255]
forth_init(s) ==
    LET s1 == add_iu([s EXCEPT !.base = HERE(s)], 10)
        s2 == add_iu([s1 EXCEPT !.dflt = HERE(s1)], 0)
        s3 == PmemPush(s2, UserPad(HERE(s2)))
    IN  dict_compile(s3)
\* the globals as the loader leaves them; the arrays hold what new T[N] returns
Zero(g) ==
    [IP |-> 0, VM |-> "QUERY", top |-> -1, compile |-> FALSE, ucase |-> FALSE,
     base |-> 0, dflt |-> 0,
     rs   |-> [idx |-> 0, v |-> [j \in 0..(E4_RS_SZ - 1) |-> g]],
     ss   |-> [idx |-> 0, v |-> [j \in 0..(E4_SS_SZ - 1) |-> g]],
     dict |-> [idx |-> 0, v |-> [j \in 0..(E4_DICT_SZ - 1) |-> NullCode]],
     pmem |-> [idx |-> 0, v |-> [j \in 0..(E4_PMEM_SZ - 1) |-> U8(g)]],
     fin |-> <<>>, fout |-> <<>>, t0 |-> 0, bidx |-> E4_PMEM_SZ, resume |-> FALSE,
     cs |-> <<>>, ret |-> 0]

\* ------------------------------------------------------------ state
\* The globals of ceforth.cpp, the statics of forth_vm (t0) and its local
\* resume, the control stack cs, the value ret of the last forth_vm call to return,
\* the clock, and two history variables: calls counts the host's calls, ev
\* records what happened during the current forth_vm call ("token": an
\* idiom was handed to forth_core, "err": forth_core reported an unknown
\* idiom, "errdef": it did so while a definition was open, "resumed": the call began by resuming, "key": a KEY opcode executed, "asked":
\* time_up() was called, "timeup": it answered 1); steps counts the turns
\* of nest()'s loop in the current forth_vm call, inits the repeated calls of
\* forth_init, susp is rs.idx as the last yield found it, last is the xt of
\* the built-in word executed last, and open tells that a `:` with a name
\* has been executed and no `;` since; xq is, for the last `exec` run from
\* inside nest(), the IP that followed it and rs.idx before it.
vars == << IP, VM, top, compile, ucase, base, dflt, rs, ss, dict, pmem,
           fin, fout, t0, bidx, resume, cs, ret, now, calls, ev, steps, inits, susp,
           last, open, xq, aes >>
St ==
    [IP |-> IP, VM |-> VM, top |-> top, compile |-> compile, ucase |-> ucase,
     base |-> base, dflt |-> dflt, rs |-> rs, ss |-> ss, dict |-> dict, pmem |-> pmem,
     fin |-> fin, fout |-> fout, t0 |-> t0, bidx |-> bidx, resume |-> resume,
     cs |-> cs, ret |-> ret]
Set(r) ==
    /\ IP = r.IP /\ VM = r.VM /\ top = r.top /\ compile = r.compile /\ ucase = r.ucase
    /\ base = r.base /\ dflt = r.dflt /\ rs = r.rs /\ ss = r.ss /\ dict = r.dict
    /\ pmem = r.pmem /\ fin = r.fin /\ fout = r.fout /\ t0 = r.t0 /\ bidx = r.bidx
    /\ resume = r.resume
    /\ cs = r.cs /\ ret = r.ret
Commit(r) ==
    /\ IP' = r.IP /\ VM' = r.VM /\ top' = r.top /\ compile' = r.compile
    /\ ucase' = r.ucase /\ base' = r.base /\ dflt' = r.dflt /\ rs' = r.rs /\ ss' = r.ss
    /\ dict' = r.dict /\ pmem' = r.pmem /\ fin' = r.fin /\ fout' = r.fout /\ t0' = r.t0
    /\ bidx' = r.bidx
    /\ resume' = r.resume /\ cs' = r.cs /\ ret' = r.ret

\* no AES context exists while the interpreter runs
AesOff == [pc |-> "off"]
Init ==
    /\ \E g \in Garbage : Set(forth_init(Zero(g)))
    /\ now = 0
    /\ calls = 0
    /\ ev = {}
    /\ steps = 0
    /\ inits = 0
    /\ susp = 0
    /\ last = ""
    /\ open = FALSE
    /\ xq = <<0, 0>>
    /\ aes = AesOff

\* the built-in word forth_core(idiom) runs, "" when it runs none
core_ran(s, idiom) ==
    LET w == CHOOSE w \in {find(s, idiom, g) : g \in Garbage} : TRUE
    IN  IF w # 0 /\ ~(s.compile /\ ~IS_IMM(s, w)) /\ ~IS_UDF(s, w)
        THEN DictAt(s, w).xt ELSE ""
\* the built-in word this turn of nest()'s loop runs, "" when it runs none
nest_ran(s) ==
    LET ix == CHOOSE ix \in {IGET(s, s.IP, g) : g \in Garbage} : TRUE
    IN  IF s.VM = "NEST" /\ s.IP # 0 /\ ix < EXT_FLAG THEN XtAt(ix) ELSE ""
\* the history variables last and open after a step that ran the built-in xt
Track(xt, named) ==
    /\ last' = IF xt # "" THEN xt ELSE last
    /\ open' = IF xt = ":" /\ named THEN TRUE
               ELSE IF xt = ";" THEN FALSE ELSE open

\* ------------------------------------------------------------ host calls
Idle == cs = <<>>
\* forth_init() called again
ForthInit ==
    /\ Idle /\ calls < MaxCalls /\ inits < MaxInit
    /\ Commit(forth_init(St))
    /\ calls' = calls + 1
    /\ inits' = inits + 1
    /\ UNCHANGED << now, ev, steps, susp, last, open, xq, aes >>
\* forth_vm(line, hook) up to its while loop
\* forth_vm that reloads the line on re-entry as well
vm_enter_reload(s, line, g) ==
    LET res == s.VM \in {"HOLD", "IO"}
        s1  == IF res THEN [RsPop(s) EXCEPT !.IP = U16(RsPopVal(s, g)), !.fin = line]
               ELSE [s EXCEPT !.fout = <<>>, !.fin = line]
    IN  [s1 EXCEPT !.resume = res, !.cs = <<"loop">>]
vm_enter(s, line, g) ==
    LET res == s.VM \in {"HOLD", "IO"}
        s1  == IF res THEN [RsPop(s) EXCEPT !.IP = U16(RsPopVal(s, g))]
               ELSE [s EXCEPT !.fout = <<>>, !.fin = line]
    IN  [s1 EXCEPT !.resume = res, !.cs = <<"loop">>]
ForthVm(line) ==
    /\ Idle /\ calls < MaxCalls
    /\ \E g \in Garbage : Commit(vm_enter(St, line, g))
    /\ calls' = calls + 1
    /\ ev' = IF VM \in {"HOLD", "IO"} THEN {"resumed"} ELSE {}
    /\ steps' = 0
    /\ last' = IF VM \in {"HOLD", "IO"} THEN last ELSE ""
    /\ UNCHANGED << now, inits, susp, open, xq, aes >>
\* forth(1, cmd): the host hands over one key
ForthKey(ch) ==
    /\ Idle /\ calls < MaxCalls
    /\ Commit(PUSH(St, ch))
    /\ calls' = calls + 1
    /\ UNCHANGED << now, ev, steps, inits, susp, last, open, xq, aes >>

\* ------------------------------------------------------------ forth_vm steps
\* while (resume || fin >> idiom) { if (resume) nest(); else forth_core(idiom);
vm_loop(s, g) ==
    LET a == [s EXCEPT !.cs = <<"after">>]
    IN  IF s.resume THEN EnterNest(a)
        ELSE IF HasTok(s.fin) THEN forth_core(Eat(a), NextTok(s.fin), g)
        ELSE [s EXCEPT !.fin = <<>>, !.cs = <<"exit">>]
VmLoop ==
    /\ cs = <<"loop">>
    /\ \E g \in Garbage : Commit(vm_loop(St, g))
    /\ ev' = ev \cup (IF ~resume /\ HasTok(fin) THEN {"token"} ELSE {})
                 \cup (IF ~resume /\ HasTok(fin) /\ Failed(St, NextTok(fin)) THEN {"err"} ELSE {})
                 \cup (IF ~resume /\ HasTok(fin) /\ Failed(St, NextTok(fin)) /\ open /\ compile
                       THEN {"errdef"} ELSE {})
    /\ Track(IF ~resume /\ HasTok(fin) THEN core_ran(St, NextTok(fin)) ELSE "",
             NextTok(AfterTok(fin)) # <<>>)
    /\ UNCHANGED << now, calls, steps, inits, susp, xq, aes >>
\* resume = VM==HOLD; if (resume && time_up()) break; }
\* time_up comparing with > instead of >=
time_up_gt(s, t1) == t1 > s.t0
time_up(s, t1) == t1 >= s.t0
\* the loop leaving on every HOLD, the clock not consulted
vm_after_hold(s, t1) ==
    LET res == s.VM = "HOLD"
    IN  IF res
        THEN [s EXCEPT !.resume = res, !.t0 = t1 + @, !.cs = <<"exit">>]
        ELSE [s EXCEPT !.resume = res, !.cs = <<"loop">>]
vm_after(s, t1) ==
    LET res == s.VM = "HOLD"
    IN  IF res /\ time_up(s, t1)
        THEN [s EXCEPT !.resume = res, !.t0 = t1 + @, !.cs = <<"exit">>]
        ELSE [s EXCEPT !.resume = res, !.cs = <<"loop">>]
VmAfter ==
    /\ cs = <<"after">>
    /\ IF VM = "HOLD"
       THEN \E t1 \in now..MaxMillis :
              /\ Commit(vm_after(St, t1))
              /\ now' = t1
              /\ ev' = ev \cup {"asked"} \cup (IF time_up(St, t1) THEN {"timeup"} ELSE {})
       ELSE Commit(vm_after(St, now)) /\ UNCHANGED << now, ev >>
    /\ UNCHANGED << calls, steps, inits, susp, last, open, xq, aes >>
\* yield = VM==HOLD || VM==IO; if (yield) rs.push(IP); else if (!compile) ss_dump();
\* forth_vm whose yield test forgets IO
vm_exit_noio(s) ==
    LET yield == s.VM = "HOLD"
        s1 == IF yield THEN RsPush(s, s.IP)
              ELSE IF ~s.compile THEN Say(s, <<>>, "ok") ELSE s
    IN  [s1 EXCEPT !.ret = IF yield THEN 1 ELSE 0, !.cs = <<>>]
vm_exit(s) ==
    LET yield == s.VM \in {"HOLD", "IO"}
        s1 == IF yield THEN RsPush(s, s.IP)
              ELSE IF ~s.compile THEN Say(s, <<>>, "ok") ELSE s
    IN  [s1 EXCEPT !.ret = IF yield THEN 1 ELSE 0, !.cs = <<>>]
VmExit ==
    /\ cs = <<"exit">>
    /\ Commit(vm_exit(St))
    /\ susp' = IF VM \in {"HOLD", "IO"} THEN rs.idx ELSE susp
    /\ UNCHANGED << now, calls, ev, steps, inits, last, open, xq, aes >>
\* nest(): while (VM==NEST && IP) { ... }
nest_step(s, g) ==
    IF s.VM = "NEST" /\ s.IP # 0 THEN NestOp(s, g)
    ELSE [s EXCEPT !.cs = SubSeq(@, 1, Len(@) - 1)]
NestStep ==
    /\ cs # <<>> /\ cs[Len(cs)] = "nest"
    /\ steps < MaxSteps
    /\ steps' = steps + 1
    /\ \E g \in Garbage :
          /\ Commit(nest_step(St, g))
          /\ ev' = IF VM = "NEST" /\ IP # 0 /\ IGET(St, IP, g) = KEY
                   THEN ev \cup {"key"} ELSE ev
    /\ Track(nest_ran(St), NextTok(fin) # <<>>)
    /\ xq' = IF nest_ran(St) = "exec" THEN <<U16(IP + SZ_IU), rs.idx>> ELSE xq
    /\ UNCHANGED << now, calls, inits, susp, aes >>

\* ------------------------------------------------------------ inputs
Lines == {
    Text(<<":", "a", "key", ";", "a">>),
    Text(<<":", "a", "key", ";", "a", "2">>),
    Text(<<":", "c", "1", ";", ":", "b", "c", "c", "c", ";", "b", "3">>),
    Text(<<"1", "zz", "2">>),
    Text(<<"drop">>),
    Text(<<"boot">>),
    Text(<<"variable", "b", "forget", "b">>),
    Text(<<>>)
}
Keys == {65}

Next ==
    \/ ForthInit
    \/ \E line \in Lines : ForthVm(line)
    \/ \E ch \in Keys : ForthKey(ch)
    \/ VmLoop
    \/ VmAfter
    \/ VmExit
    \/ NestStep
Spec == Init /\ [][Next]_vars

\* the host feeding forth_vm lines of L only
NextOn(L) ==
    \/ \E line \in L : ForthVm(line)
    \/ VmLoop
    \/ VmAfter
    \/ VmExit
    \/ NestStep

\* lines that run exec and abort, at top level and inside colon words
LinesCtl == {
    Text(<<":", "c", "1", ";", ":", "b", "exec", "2", ";", "'", "c", "b">>),
    Text(<<":", "a", "1", "abort", ";", "a">>),
    Text(<<"1", "abort">>)
}
NextCtl == NextOn(LinesCtl)
SpecCtl == Init /\ [][NextCtl]_vars

\* lines that open, close and break definitions
LinesDef == {
    Text(<<"]">>),
    Text(<<"[", ":", "c", ";", "c">>),
    Text(<<":">>),
    Text(<<":", "a", "if", ";">>),
    Text(<<":", "a", "if", "1", "then", ";">>),
    Text(<<":", "b", "zz", ";">>),
    Text(<<"create">>)
}
NextDef == NextOn(LinesDef)
SpecDef == Init /\ [][NextDef]_vars

\* lines that redefine, forget and look up words
LinesDict == {
    Text(<<":", "a", ";", ":", "a", "1", ";", "a">>),
    Text(<<":", "A", ";", "0", "case!">>),
    Text(<<"1", "case!", "forget", "zz">>),
    Text(<<"1", ",", ":", "a", ";", "forget", "a">>),
    Text(<<":", "a", ";", ":", "b", ";", "forget", "b">>),
    Text(<<"forget", "dup">>)
}
NextDict == NextOn(LinesDict)
SpecDict == Init /\ [][NextDict]_vars

\* lines that fill the stack and run a compiled word
LinesEq == {
    Text(<<"1">>),
    Text(<<"2", "3">>),
    Text(<<":", "c", "1", "2", "+", ";", "c">>)
}
NextEq == NextOn(LinesEq)
SpecEq == Init /\ [][NextEq]_vars

\* lines that run loops and branches
LinesLoop == {
    Text(<<"1">>),
    Text(<<":", "a", "if", "1", "else", "2", "then", "dup", ";", "0", "a">>),
    Text(<<":", "a", "2", "for", "i", "next", ";", "a">>),
    Text(<<":", "b", "3", "1", "do", "i", "loop", ";", "b">>)
}
NextLoop == NextOn(LinesLoop)
SpecLoop == Init /\ [][NextLoop]_vars

\* lines of stack words, arithmetic and number literals
LinesAlu == {
    Text(<<"1", "3", "over", "over">>),
    Text(<<":", "c", "swap", "swap", ";", "1", "3", "c">>),
    Text(<<"2147483647", "3", "*">>)
}
NextAlu == NextOn(LinesAlu)
SpecAlu == Init /\ [][NextAlu]_vars

\* lines of number literals in both bases
LinesNum == {
    Text(<<"hex", "%11", "1f", "decimal", "drop", "drop">>),
    Text(<<":", "12", ";", "12">>),
    Text(<<"1g">>)
}
NextNum == NextOn(LinesNum)
SpecNum == Init /\ [][NextNum]_vars

\* lines that store and fetch cells
LinesStr == {
    Text(<<"variable", "a", "-1", "a", "!", "a", "@", "drop">>),
    Text(<<"65537", "$1f", "!", "0", "@">>),
    Text(<<"s\"", "ab\"">>)
}
NextStr == NextOn(LinesStr)
SpecStr == Init /\ [][NextStr]_vars

\* lines that create and use variables and constants
LinesMem == {
    Text(<<"boot">>),
    Text(<<"variable", "a", "-1", "a", "!", "a", "@">>),
    Text(<<":", "c", "create", ",", "does>", "@", ";", "3", "c", "a", "a">>)
}
NextMem == NextOn(LinesMem)
SpecMem == Init /\ [][NextMem]_vars

\* ------------------------------------------------------------ whole calls
\* forth_vm(line) from entry to return, as the steps above taken in turn
\* with the clock standing at t1; n bounds the number of steps
RECURSIVE vm_run(_, _, _)
vm_run(s, t1, n) ==
    IF n = 0 \/ s.cs = <<>> \/ s.cs = <<"trap">> THEN s
    ELSE LET c == s.cs[Len(s.cs)]
         IN  IF c = "include" THEN s
             ELSE vm_run(IF c = "loop" THEN vm_loop(s, 0)
                        ELSE IF c = "after" THEN vm_after(s, t1)
                        ELSE IF c = "exit" THEN vm_exit(s)
                        ELSE nest_step(s, 0), t1, n - 1)
forth_vm(s, line, t1) == vm_run(vm_enter(s, line, 0), t1, 4 * Len(line) + 4 * SZ_DU)

\* ------------------------------------------------------------ included
\* what sync_fetch finds on the server: the script ab is the line `2`, the
\* script b the line `zz`, no other file exists
sync_fetch(fn) ==
    IF fn = <<97, 98>> THEN Ch["2"] ELSE IF fn = <<98>> THEN Ch["zz"] ELSE <<>>
\* getline(in, cmd) over the bytes b: the lines between newlines
RECURSIVE StreamLines(_)
StreamLines(b) ==
    LET k == ScanEnd(b, 10)
    IN  IF b = <<>> THEN <<>>
        ELSE IF k = 0 THEN <<b>>
        ELSE <<SubSeq(b, 1, k - 1)>> \o StreamLines(SubSeq(b, k + 1, Len(b)))
\* cmd.c_str(): the line up to its first NUL
c_str(b) == IF ScanEnd(b, 0) = 0 THEN b ELSE SubSeq(b, 1, ScanEnd(b, 0) - 1)
\* while (forth_vm(cmd)); the clock reads MaxMillis
RECURSIVE drive(_, _, _)
\* the loop's test on what forth_vm returned
drive_again(r, line, n) ==
    IF r.ret = 0 \/ r.cs # <<>> \/ n = 0 THEN r ELSE drive(r, line, n - 1)
drive(s, line, n) == drive_again(forth_vm(s, line, MaxMillis), line, n)
\* outer(in): while (getline(in, cmd)) while (forth_vm(cmd.c_str()));
RECURSIVE outer(_, _)
outer(s, lines) ==
    IF lines = <<>> \/ s.cs = <<"trap">> THEN s
    ELSE outer(drive(s, c_str(lines[1]), MaxCalls), Tail(lines))
\* forth_include leaving the buffer index where the script starts
include_release_none(b, rst) == b
\* bidx += rst
include_release(b, rst) == b + rst
\* the script is copied below bidx, NUL-terminated; the stream handed to
\* outer is the whole 16-byte-aligned region, whatever follows the NUL
\* included; forth_vm's locals (resume, the return value) are those of the
\* including call
\* forth_include after outer returned r: the caller's stream goes on
include_done(s, r, adj) ==
    LET k  == ScanEnd(s.fin, 10)
        in == IF k = 0 THEN s.fin ELSE SubSeq(s.fin, 1, k - 1)
    IN  [r EXCEPT !.bidx = include_release(@, adj), !.fin = in,
                  !.cs = IF r.cs = <<>> THEN s.cs ELSE <<"trap">>,
                  !.resume = s.resume, !.ret = s.ret]
forth_include(s, fn, g) ==
    LET txt == sync_fetch(fn)
        len == Len(txt) + 1
        adj == ((len + 16) \div 16) * 16
        s1  == [WrBytes(s, s.bidx - adj, txt \o <<0>>) EXCEPT !.bidx = @ - adj]
        buf == [j \in 1..adj |-> Rd8(s1, s1.bidx + j - 1, g)]
    IN  IF txt = <<>> THEN Say(s, fn, "load failed!")
        ELSE include_done(s, outer([s1 EXCEPT !.cs = <<>>], StreamLines(buf)), adj)
\* rs.push(IP); VM = NEST; forth_include(fn); IP = UINT(rs.pop());
load_done(r, g) == [RsPop(r) EXCEPT !.IP = U16(RsPopVal(r, g))]
load(s, fn, g) == load_done(forth_include([RsPush(s, s.IP) EXCEPT !.VM = "NEST"], fn, g), g)
\* the built-in included: load(MEM(POP()) with the length dropped)
included(s, g) ==
    LET p  == POP(s, g)
        pp == POP(p, g)
    IN  load([pp EXCEPT !.cs = SubSeq(@, 1, Len(@) - 1)], CStr(pp, U16(p.top), g), g)
Included ==
    /\ cs # <<>> /\ cs[Len(cs)] = "include"
    /\ \E g \in Garbage : Commit(included(St, g))
    /\ UNCHANGED << now, calls, ev, steps, inits, susp, last, open, xq, aes >>
\* forth_vm(line) on lines that include scripts; included scripts include
\* no further script
RECURSIVE vm_run_included(_, _, _)
vm_run_included(s, t1, n) ==
    LET r == vm_run(s, t1, n)
    IN  IF n = 0 \/ r.cs = <<>> \/ r.cs[Len(r.cs)] # "include" THEN r
        ELSE vm_run_included(included(r, 0), t1, n - 1)
forth_vm_included(s, line, t1) ==
    vm_run_included(vm_enter(s, line, 0), t1, 4 * Len(line) + 4 * SZ_DU)

\* lines that include scripts, from the input line and from a colon word
LinesInc == {
    Text(<<"s\"", "ab\"", "included", "drop">>),
    Text(<<":", "a", "s\"", "ab\"", "included", "dup", ";", "a", "drop">>),
    Text(<<"s\"", "c\"", "included">>)
}
NextInc == NextOn(LinesInc) \/ Included
SpecInc == Init /\ [][NextInc]_vars

\* lines that call colon words one, two and three levels deep, with loops
\* and >r r> inside
LinesCall == {
    Text(<<":", "c", ";", ":", "b", "c", "c", ";", "b">>),
    Text(<<":", "a", "0", "for", "dup", ">r", "r>", "drop", "next", ";",
           "3", ">r", "a", "r>", "drop">>),
    Text(<<":", "c", ";", ":", "b", "c", ";", ":", "a", "b", ";", "a">>)
}
NextCall == NextOn(LinesCall)
SpecCall == Init /\ [][NextCall]_vars

\* lines that compile a word around an inline string and run it
LinesLit == {
    Text(<<":", "c", "s\"", "b\"", "drop", "drop", ";", "c">>),
    Text(<<":", "a", ".\"", "ab\"", "dup", "drop", ";", "a">>)
}
NextLit == NextOn(LinesLit)
SpecLit == Init /\ [][NextLit]_vars

\* lines that redefine a word another word refers to
LinesBind == {
    Text(<<":", "a", "1", ";", ":", "b", "a", ";", ":", "a", "2", ";", "b", "drop">>),
    Text(<<":", "b", "dup", ";", ":", "dup", "3", ";", "b", "drop">>)
}
NextBind == NextOn(LinesBind)
SpecBind == Init /\ [][NextBind]_vars

\* ------------------------------------------------------------ AES-CTR (tests/aes_ctr.cpp)
AES_BITS == 256
NROUND == 14
AES_NBLOCK == 16
AES_KEY_SZ == AES_NBLOCK * (NROUND + 1)
WORD_PER_KEY == AES_BITS \div 32

sbox == <<
    99, 124, 119, 123, 242, 107, 111, 197, 48, 1, 103, 43, 254, 215, 171, 118,
    202, 130, 201, 125, 250, 89, 71, 240, 173, 212, 162, 175, 156, 164, 114, 192,
    183, 253, 147, 38, 54, 63, 247, 204, 52, 165, 229, 241, 113, 216, 49, 21,
    4, 199, 35, 195, 24, 150, 5, 154, 7, 18, 128, 226, 235, 39, 178, 117,
    9, 131, 44, 26, 27, 110, 90, 160, 82, 59, 214, 179, 41, 227, 47, 132,
    83, 209, 0, 237, 32, 252, 177, 91, 106, 203, 190, 57, 74, 76, 88, 207,
    208, 239, 170, 251, 67, 77, 51, 133, 69, 249, 2, 127, 80, 60, 159, 168,
    81, 163, 64, 143, 146, 157, 56, 245, 188, 182, 218, 33, 16, 255, 243, 210,
    205, 12, 19, 236, 95, 151, 68, 23, 196, 167, 126, 61, 100, 93, 25, 115,
    96, 129, 79, 220, 34, 42, 144, 136, 70, 238, 184, 20, 222, 94, 11, 219,
    224, 50, 58, 10, 73, 6, 36, 92, 194, 211, 172, 98, 145, 149, 228, 121,
    231, 200, 55, 109, 141, 213, 78, 169, 108, 86, 244, 234, 101, 122, 174, 8,
    186, 120, 37, 46, 28, 166, 180, 198, 232, 221, 116, 31, 75, 189, 139, 138,
    112, 62, 181, 102, 72, 3, 246, 14, 97, 53, 87, 185, 134, 193, 29, 158,
    225, 248, 152, 17, 105, 217, 142, 148, 155, 30, 135, 233, 206, 85, 40, 223,
    140, 161, 137, 13, 191, 230, 66, 104, 65, 153, 45, 15, 176, 84, 187, 22
>>
rcon == <<
    141, 1, 2, 4, 8, 16, 32, 64, 128, 27, 54
>>

\* element i of a C array held as a sequence
At(a, i) == a[i + 1]
Xor8(a, b) == Bits(<<<<0, 1>>, <<1, 0>>>>, a, b, 8)

\* the macros ROR and SUB on a 4-byte word
ROR(t) == <<t[2], t[3], t[4], t[1]>>
SUB(t) == <<At(sbox, t[1]), At(sbox, t[2]), At(sbox, t[3]), At(sbox, t[4])>>

\* _expand_key: the first loop copies the key into rk[0..31]
expand_first(key0) ==
    [k \in 1..AES_KEY_SZ |-> IF k <= 4 * WORD_PER_KEY THEN key0[k] ELSE 0]
\* _expand_key: one pass of the second loop, for round-key word i
expand_word(rk, i) ==
    LET w0 == <<At(rk, (i - 1) * 4), At(rk, (i - 1) * 4 + 1),
                At(rk, (i - 1) * 4 + 2), At(rk, (i - 1) * 4 + 3)>>
        w1 == IF i % WORD_PER_KEY = 0
              THEN LET r == SUB(ROR(w0))
                   IN  [r EXCEPT ![1] = Xor8(@, At(rcon, i \div WORD_PER_KEY))]
              ELSE w0
        tmp == IF i % WORD_PER_KEY = 4 THEN SUB(w1) ELSE w1
    IN  [k \in 1..AES_KEY_SZ |->
            IF k - 1 \in (i * 4)..(i * 4 + 3)
            THEN Xor8(At(rk, (i - WORD_PER_KEY) * 4 + (k - 1 - i * 4)), tmp[k - i * 4])
            ELSE rk[k]]

\* st[4][4] is held as the 16 bytes of (U8*)st: st[c][r] is byte 4c + r
update_key(st, rk, n) == [k \in 1..16 |-> Xor8(st[k], At(rk, n * 16 + k - 1))]
sub_bytes(st) == [k \in 1..16 |-> At(sbox, st[k])]
shift_rows(st) ==
    [k \in 1..16 |->
        LET c == (k - 1) \div 4
            r == (k - 1) % 4
        IN  At(st, 4 * ((c + r) % 4) + r)]
\* the lambda of _mix_columns returns an int of up to 9 bits
xtime_shift(v) == 2 * v
xtime(v) == Bits(<<<<0, 1>>, <<1, 0>>>>, 2 * v, IF v >= 128 THEN 27 ELSE 0, 9)
mix_columns(st) ==
    [k \in 1..16 |->
        LET p == 4 * ((k - 1) \div 4)
            j == (k - 1) % 4
            x == Xor8(Xor8(At(st, p), At(st, p + 1)), Xor8(At(st, p + 2), At(st, p + 3)))
            v == Xor8(At(st, p + j), At(st, p + ((j + 1) % 4)))
        IN  Xor8(At(st, p + j), U8(Bits(<<<<0, 1>>, <<1, 0>>>>, xtime(v), x, 9)))]
\* _cipher: the body of its loop for round n, with the key addition that follows
cipher_round(st, rk, n) ==
    LET s == shift_rows(sub_bytes(st))
    IN  IF n = NROUND THEN update_key(s, rk, NROUND)
        ELSE update_key(mix_columns(s), rk, n)

\* xcrypt: the counter loop, for (bi = 15; bi >= 0; --bi)
RECURSIVE iv_count(_, _)
iv_count_low(iv, bi) == [iv EXCEPT ![bi + 1] = (@ + 1) % 256]
iv_count(iv, bi) ==
    IF bi < 0 THEN iv
    ELSE IF At(iv, bi) # 255 THEN [iv EXCEPT ![bi + 1] = @ + 1]
    ELSE iv_count([iv EXCEPT ![bi + 1] = 0], bi - 1)

\* test_ctr: the reference key, ciphertext, IV and plaintext
test_key == <<
    96, 61, 235, 16, 21, 202, 113, 190, 43, 115, 174, 240, 133, 125, 119, 129,
    31, 53, 44, 7, 59, 97, 8, 215, 45, 152, 16, 163, 9, 20, 223, 244
>>
test_in == <<
    96, 30, 195, 19, 119, 87, 137, 165, 183, 167, 245, 4, 187, 243, 210, 40,
    244, 67, 227, 202, 77, 98, 181, 154, 202, 132, 233, 144, 202, 202, 245, 197,
    43, 9, 48, 218, 162, 61, 233, 76, 232, 112, 23, 186, 45, 132, 152, 141,
    223, 201, 197, 141, 182, 122, 173, 166, 19, 194, 221, 8, 69, 121, 65, 166
>>
test_iv == <<
    240, 241, 242, 243, 244, 245, 246, 247, 248, 249, 250, 251, 252, 253, 254, 255
>>
test_out == <<
    107, 193, 190, 226, 46, 64, 159, 150, 233, 61, 126, 17, 115, 147, 23, 42,
    174, 45, 138, 87, 30, 3, 172, 156, 158, 183, 111, 172, 69, 175, 142, 81,
    48, 200, 28, 70, 163, 92, 228, 17, 229, 251, 193, 25, 26, 10, 82, 239,
    246, 159, 36, 69, 223, 79, 155, 23, 173, 43, 65, 123, 230, 108, 55, 16
>>

\* keys, IVs and buffers the contexts are built and run with
AesKeys == {test_key, [k \in 1..32 |-> 0]}
AesIvs == {test_iv, [k \in 1..16 |-> 255], [k \in 1..16 |-> IF k = 16 THEN 254 ELSE 0]}
AesBufs == {<<>>, <<1>>, [k \in 1..17 |-> k], [k \in 1..33 |-> 255 - k], test_in}

\* the interpreter at rest while the AES test runs
ForthIdle ==
    /\ Set(Zero(0))
    /\ now = 0
    /\ calls = 0
    /\ ev = {}
    /\ steps = 0
    /\ inits = 0
    /\ susp = 0
    /\ last = ""
    /\ open = FALSE
    /\ xq = <<0, 0>>
ForthVars ==
    << IP, VM, top, compile, ucase, base, dflt, rs, ss, dict, pmem,
       fin, fout, t0, bidx, resume, cs, ret, now, calls, ev, steps, inits, susp,
       last, open, xq >>

\* key0, iv0 and in are the caller's arrays, arg the buffer as xcrypt got it,
\* pass counts the contexts built; ks and src list the keystream blocks of
\* the running xcrypt call and the IV values they were made from
InitAes ==
    /\ ForthIdle
    /\ \E key0 \in AesKeys, iv0 \in AesIvs, buf \in AesBufs :
        aes = [pc |-> "new", key0 |-> key0, iv0 |-> iv0, in |-> buf, arg |-> buf,
               pass |-> 1, rk |-> <<>>, iv |-> <<>>, st |-> <<>>, buf |-> buf,
               i |-> 0, bi |-> 0, n |-> 0, w |-> 0, ks |-> <<>>, src |-> <<>>]

\* AES::AES up to the second loop of _expand_key
AesNew ==
    /\ aes.pc = "new"
    /\ aes' = [aes EXCEPT !.pc = "expand", !.rk = expand_first(aes.key0),
                          !.w = WORD_PER_KEY]
    /\ UNCHANGED ForthVars
\* one pass of the second loop of _expand_key
AesExpand ==
    /\ aes.pc = "expand" /\ aes.w < 4 * (NROUND + 1)
    /\ aes' = [aes EXCEPT !.rk = expand_word(aes.rk, aes.w), !.w = @ + 1]
    /\ UNCHANGED ForthVars
\* memcpy(iv, iv0), and the caller entering xcrypt(buf, len)
AesXcrypt ==
    /\ aes.pc = "expand" /\ aes.w = 4 * (NROUND + 1)
    /\ aes' = [aes EXCEPT !.pc = "xcrypt", !.iv = aes.iv0, !.i = 0,
                          !.bi = AES_NBLOCK, !.arg = aes.buf, !.ks = <<>>, !.src = <<>>]
    /\ UNCHANGED ForthVars
\* bi == AES_NBLOCK: memcpy(st, iv) and _cipher up to its loop
AesBlock ==
    /\ aes.pc = "xcrypt" /\ aes.i < Len(aes.buf) /\ aes.bi = AES_NBLOCK
    /\ aes' = [aes EXCEPT !.pc = "cipher", !.st = update_key(aes.iv, aes.rk, 0),
                          !.n = 1, !.src = Append(@, aes.iv)]
    /\ UNCHANGED ForthVars
\* one round of _cipher
AesRound ==
    /\ aes.pc = "cipher"
    /\ aes' = [aes EXCEPT !.st = cipher_round(aes.st, aes.rk, aes.n),
                          !.n = @ + 1,
                          !.pc = IF aes.n = NROUND THEN "count" ELSE "cipher"]
    /\ UNCHANGED ForthVars
\* the counter loop and bi = 0
AesCount ==
    /\ aes.pc = "count"
    /\ aes' = [aes EXCEPT !.pc = "xcrypt", !.iv = iv_count(aes.iv, AES_NBLOCK - 1),
                          !.bi = 0, !.ks = Append(@, aes.st)]
    /\ UNCHANGED ForthVars
\* buf[i] ^= ((U8*)st)[bi]; ++i, ++bi
AesXor ==
    /\ aes.pc = "xcrypt" /\ aes.i < Len(aes.buf) /\ aes.bi < AES_NBLOCK
    /\ aes' = [aes EXCEPT !.buf[aes.i + 1] = Xor8(@, At(aes.st, aes.bi)),
                          !.i = @ + 1, !.bi = @ + 1]
    /\ UNCHANGED ForthVars
\* xcrypt returns: the caller builds the second context, or is done
AesReturn ==
    /\ aes.pc = "xcrypt" /\ aes.i = Len(aes.buf)
    /\ aes' = IF aes.pass = 1
              THEN [aes EXCEPT !.pc = "new", !.pass = 2, !.rk = <<>>, !.iv = <<>>,
                               !.st = <<>>, !.i = 0, !.bi = 0, !.n = 0, !.w = 0]
              ELSE [aes EXCEPT !.pc = "done"]
    /\ UNCHANGED ForthVars

NextAes ==
    \/ AesNew
    \/ AesExpand
    \/ AesXcrypt
    \/ AesBlock
    \/ AesRound
    \/ AesCount
    \/ AesXor
    \/ AesReturn
SpecAes == InitAes /\ [][NextAes]_vars

\* ------------------------------------------------------------ properties
Yielding(vm) == vm \in {"HOLD", "IO"}

\* C1: calling forth_init a second time leaves DICT (dict.idx and every
\* entry), PMEM (HERE and contents) and the BASE/DFLT cells exactly as the
\* first call left them.
C1_InitIdempotent ==
    [][ForthInit => (dict' = dict /\ pmem' = pmem /\ base' = base /\ dflt' = dflt)]_vars

\* C2: forth_vm returns non-zero exactly when VM is HOLD or IO at return, and
\* then IP has been pushed as the top entry of RS; it returns zero exactly
\* when the input line has been consumed and VM is neither HOLD nor IO.
C2_ReturnValue ==
    [][cs = <<"exit">> =>
        /\ Idle'
        /\ (ret' # 0) <=> Yielding(VM')
        /\ (ret' # 0) => /\ rs'.idx = rs.idx + 1
                         /\ ListAt(rs', E4_RS_SZ, -1, IP) = IP
                         /\ IP' = IP /\ VM' = VM
        /\ (ret' = 0) <=> (~HasTok(fin') /\ ~Yielding(VM'))]_vars
\* a call that returned non-zero with VM=IO and the saved IP on top of RS
C2_Yielded ==
    Idle /\ ret = 1 /\ VM = "IO" /\ rs.idx \in 1..E4_RS_SZ /\ rs.v[rs.idx - 1] = IP /\ IP # 0

\* C3: once a KEY opcode has executed inside a colon word, forth_vm looks up
\* no later token of the line before it returns, and it returns non-zero,
\* wherever the word stands in the line.
C3_KeyYieldsFirst ==
    /\ ("key" \in ev /\ cs = <<"loop">> /\ ~resume) => ~HasTok(fin)
    /\ ("key" \in ev /\ Idle) => ret # 0

\* C4: a forth_vm call that finds VM HOLD or IO pops exactly the RS entry the
\* yield pushed and makes it IP, leaves the input stream as it is, and enters
\* nest at that IP with RS as deep as the yield found it; when the resumed
\* call returns zero the remaining tokens of the original line are consumed.
C4_Reentry ==
    [][/\ (Idle /\ Yielding(VM) /\ ~Idle') =>
            /\ rs'.idx = rs.idx - 1 /\ rs'.idx = susp
            /\ IP' = U16(ListAt(rs, E4_RS_SZ, -1, IP'))
            /\ fin' = fin /\ resume' /\ cs' = <<"loop">>
       /\ (cs = <<"loop">> /\ resume) =>
            (cs' = <<"after", "nest">> /\ IP' = IP /\ rs' = rs /\ fin' = fin)
       /\ ("resumed" \in ev /\ cs = <<"exit">> /\ ~Yielding(VM)) => ~HasTok(fin)]_vars
\* a resumed call that went on to the remaining tokens of its line and finished
C4_ResumedThenTokens ==
    Idle /\ ret = 0 /\ {"resumed", "token"} \subseteq ev

C6_TwoSuspensionPoints ==
    (Idle /\ ret # 0) => (ev \cap {"key", "timeup"} # {})
\* a nested colon word returned (VM=HOLD) before the deadline and the call
\* went on to return zero
C6_NestedReturnNoYield ==
    Idle /\ ret = 0 /\ "asked" \in ev /\ "timeup" \notin ev

\* C7: after the `<idiom>?` message no later token of that line is executed
\* or compiled: DICT, PMEM, SS and RS stay as they are for the rest of the
\* call's tokens.
C7_ErrorAbandonsLine ==
    [][("err" \in ev /\ cs = <<"loop">>) =>
            (dict' = dict /\ pmem' = pmem /\ ss' = ss /\ rs' = rs)]_vars

\* C8: processing a token that fails both dictionary lookup and number
\* parsing leaves SS depth, TOP and HERE unchanged.
C8_FailedTokenNoEffect ==
    [][(cs = <<"loop">> /\ ~resume /\ HasTok(fin) /\ Failed(St, NextTok(fin))) =>
            (ss'.idx = ss.idx /\ top' = top /\ pmem'.idx = pmem.idx)]_vars

\* C9: after each forth_vm call that returned without yield every index is
\* in bounds: 0 <= ss.idx <= E4_SS_SZ, 0 <= rs.idx <= E4_RS_SZ,
\* pmem.idx <= E4_PMEM_SZ, dict.idx <= E4_DICT_SZ.
C9_IndexBounds ==
    (Idle /\ ret = 0) =>
        /\ ss.idx \in 0..E4_SS_SZ
        /\ rs.idx \in 0..E4_RS_SZ
        /\ pmem.idx <= E4_PMEM_SZ
        /\ dict.idx <= E4_DICT_SZ

\* C10: between calls HERE >= USER_AREA and every user-defined dictionary
\* entry has pfa >= USER_AREA, so that pfa|EXT_FLAG is no primitive opcode.
C10_UserArea ==
    Idle =>
        /\ HERE(St) >= USER_AREA
        /\ \A w \in 1..(E4_DICT_SZ - 1) :
              (w < dict.idx /\ IS_UDF(St, w)) =>
                 (DictAt(St, w).pfa >= USER_AREA /\ ~IS_PRIM(DictAt(St, w).pfa + EXT_FLAG))

\* C11: when exec runs inside a colon word with the index of another colon
\* word and the target has run to its EXIT, nest goes on in the calling word
\* at the IU after exec, with RS as deep as before exec.
C11_ExecReturns ==
    [][(/\ Len(cs) >= 2 /\ cs[Len(cs)] = "nest" /\ cs[Len(cs) - 1] = "nest"
        /\ cs' = SubSeq(cs, 1, Len(cs) - 1) /\ VM = "STOP") =>
            (VM' = "NEST" /\ IP' = xq[1] /\ rs'.idx = xq[2])]_vars

\* C12: a call whose last executed word is abort returns zero with both
\* stacks empty, whether abort ran at top level or inside a colon word.
C12_AbortClears ==
    (Idle /\ last = "abort") => (ss.idx = 0 /\ rs.idx = 0 /\ ret = 0)

\* C13 as stated: after a call that returned without yielding, compile is
\* true only while a `:` definition is open.
C13_CompileOnlyOpen ==
    (Idle /\ ret = 0 /\ compile) => open
\* C13 amended: compile turns true only by `:` given a name or by `]`, and
\* turns false only by `;`, by `[`, by `:` given no name or by a failed token.
C13_CompileSwitch ==
    [][/\ (~compile /\ compile') => (last' = "]" \/ (last' = ":" /\ open'))
       /\ (compile /\ ~compile') => (last' \in {";", "[", ":"} \/ "err" \in ev')]_vars
\* a call has returned with compile left true by `]`, no definition open
C13_RightBracket ==
    Idle /\ ret = 0 /\ compile /\ ~open /\ last = "]"

\* Walks the compiled body [a, end) as nest() would decode it: an opcode IU,
\* a branch operand IU after BRAN, ZBRAN, NEXT and LOOP, a DU after LIT.
\* TRUE when some branch operand lies outside [lo, end).
RECURSIVE Dangling(_, _, _, _)
Dangling(s, a, end, lo) ==
    IF a + SZ_IU > end THEN FALSE
    ELSE LET ix == IGET(s, a, 0)
         IN  IF ix \in {BRAN, ZBRAN, NEXT, LOOP}
             THEN LET t == IGET(s, a + SZ_IU, 0)
                  IN  ~(t >= lo /\ t < end) \/ Dangling(s, a + 2 * SZ_IU, end, lo)
             ELSE IF ix = LIT THEN Dangling(s, a + SZ_IU + SZ_DU, end, lo)
             ELSE Dangling(s, a + SZ_IU, end, lo)
\* C14: when `;` closes a colon definition, every branch operand in the body
\* of that word is an address inside the body: no 0 placeholder is left.
C14_NoDangling ==
    [][(open /\ ~open' /\ dict'.idx >= 1 /\ IS_UDF(St', dict'.idx - 1)) =>
          ~Dangling(St', DictAt(St', dict'.idx - 1).pfa, pmem'.idx,
                    DictAt(St', dict'.idx - 1).pfa)]_vars

\* C15: a token that is neither word nor number, met while a definition is
\* open, prints `<token>?` and clears compile; nothing is rolled back: DICT
\* and PMEM are as before the token and the open word is found by its name.
\* When the line went on to `;` and the call returned, compile is false and
\* the word is still the newest entry.
C15_ErrorInDefinition ==
    /\ [][(cs = <<"loop">> /\ ~resume /\ HasTok(fin) /\ open /\ compile
            /\ Failed(St, NextTok(fin))) =>
              /\ fout' = Append(fout, <<NextTok(fin), "?">>)
              /\ ~compile'
              /\ dict' = dict /\ pmem' = pmem
              /\ \A g \in Garbage :
                    find(St', NameOf(St', DictAt(St', dict'.idx - 1).name, g), g)
                        = dict.idx - 1]_vars
    /\ []((Idle /\ "errdef" \in ev /\ last = ";") =>
              (~compile /\ IS_UDF(St, dict.idx - 1)))
\* `: b zz ;` has returned: `zz?` was printed, compile is false, b is in DICT
C15_BadReturned ==
    /\ Idle /\ "errdef" \in ev /\ last = ";" /\ ~compile
    /\ \E i \in 1..Len(fout) : fout[i] = <<Ch["zz"], "?">>
    /\ \A g \in Garbage : find(St, Ch["b"], g) = dict.idx - 1
    /\ IS_UDF(St, dict.idx - 1)

\* C16: when `:`, variable, constant or create is executed with no token
\* after it on the line, ` name?` is printed and nothing is created: dict.idx,
\* HERE and the bytes of PMEM are unchanged and compile is false.
C16_NoNameNoWord ==
    [][(/\ cs = <<"loop">> /\ ~resume /\ HasTok(fin)
        /\ core_ran(St, NextTok(fin)) \in {":", "variable", "constant", "create"}
        /\ NextTok(AfterTok(fin)) = <<>>) =>
            /\ fout' = Append(fout, <<<<>>, "name?">>)
            /\ dict'.idx = dict.idx
            /\ pmem' = pmem
            /\ ~compile']_vars

\* the names find is probed with
Probes == {Ch["a"], Ch["A"], Ch["dup"], Ch["zz"], Ch["nul "]}
\* the indices from 1 up whose entry bears the name str
Hits(s, str, g) ==
    {i \in 1..(s.dict.idx - 1) : StrEq(s, str, NameOf(s, DictAt(s, i).name, g))}
\* C17: wherever forth_vm is about to look a token up, find returns the
\* highest index from 1 up whose name equals the argument (letter case
\* ignored iff ucase), and 0 when there is none; index 0 is never the answer
\* for a match.
C17_FindNewest ==
    (cs = <<"loop">>) => \A str \in Probes : \A g \in Garbage :
        LET r == find(St, str, g)
            h == Hits(St, str, g)
        IN  /\ (h = {}) <=> (r = 0)
            /\ (h # {}) => (r \in h /\ \A j \in h : j <= r)
\* `a` is defined twice and `A` once, ucase is set: find("A") has three
\* entries to choose from
C17_ThreeMatches ==
    /\ cs = <<"loop">> /\ ucase
    /\ \E g \in Garbage : Cardinality(Hits(St, Ch["A"], g)) >= 3

\* C18: when `:` is executed with a name that find already finds, and DICT
\* and PMEM have room for the header, `<name> reDef?` is printed, one entry
\* is appended, every older entry is as it was, and find of that name now
\* returns the new entry.
C18_RedefAppends ==
    [][(/\ cs = <<"loop">> /\ ~resume /\ HasTok(fin)
        /\ core_ran(St, NextTok(fin)) = ":"
        /\ NextTok(AfterTok(fin)) # <<>>
        /\ \A g \in Garbage : find(St, NextTok(AfterTok(fin)), g) # 0
        /\ dict.idx < E4_DICT_SZ
        /\ HERE(St) + STRLEN(NextTok(AfterTok(fin))) <= E4_PMEM_SZ) =>
            /\ fout' = Append(fout, <<NextTok(AfterTok(fin)), "reDef?">>)
            /\ dict'.idx = dict.idx + 1
            /\ \A i \in 0..(dict.idx - 1) : DictAt(St', i) = DictAt(St, i)
            /\ \A g \in Garbage :
                  find(St', NextTok(AfterTok(fin)), g) = dict.idx]_vars
\* `: a ; : a 1 ; a` has returned: the warning is in the output, two entries
\* are named a and find answers the newer
C18_Redefined ==
    /\ Idle
    /\ \E i \in 1..Len(fout) : fout[i] = <<Ch["a"], "reDef?">>
    /\ Cardinality(Hits(St, Ch["a"], 0)) >= 2
    /\ find(St, Ch["a"], 0) = dict.idx - 1

\* C19: forget <name>. A user word (index above boot's): dict.idx becomes
\* its index and HERE its NFA, the entries before it and PMEM below the NFA
\* are as they were. A built-in (index up to boot's): dict.idx becomes boot's
\* index plus one. A name find does not find: DICT and PMEM are unchanged.
C19_Forget ==
    [][(/\ cs = <<"loop">> /\ ~resume /\ HasTok(fin)
        /\ core_ran(St, NextTok(fin)) = "forget") =>
          LET w    == find(St, NextTok(AfterTok(fin)), 0)
              boot == find(St, Ch["boot"], 0)
              nfa  == DictAt(St, w).name
          IN  /\ (w = 0) => (dict' = dict /\ pmem' = pmem)
              /\ (w > boot) =>
                    /\ dict'.idx = w
                    /\ pmem'.idx = nfa
                    /\ \A i \in 0..(w - 1) : DictAt(St', i) = DictAt(St, i)
                    /\ \A a \in 0..(nfa - 1) : pmem'.v[a] = pmem.v[a]
              /\ (w >= 1 /\ w <= boot) => dict'.idx = boot + 1]_vars

\* the sequences of number literals and stack/arithmetic words compared
EqNums == {"1", "2", "3"}
EqSeqs == {
    <<"1", "2", "+">>, <<"2", "1", "-">>, <<"3", "dup", "+">>,
    <<"1", "2", "swap">>, <<"1", "2", "over">>, <<"1", "2", "drop">>,
    <<"dup", "+">>, <<"1", "swap", "-">>, <<"2", "over">>, <<"drop", "3">>,
    <<"swap", "drop">>, <<"over", "+", "1", "-">>
}
\* the sequence run from depth d (ss.idx) keeps every SS access inside the
\* array: a word other than dup reads ss[-1], a literal, dup and over push
RECURSIVE Fits(_, _)
Fits(seq, d) ==
    IF seq = <<>> THEN TRUE
    ELSE LET t == seq[1]
         IN  IF t \in EqNums \/ t = "dup"
             THEN d + 1 <= E4_SS_SZ /\ Fits(Tail(seq), d + 1)
             ELSE IF t = "over"
             THEN d >= 1 /\ d + 1 <= E4_SS_SZ /\ Fits(Tail(seq), d + 1)
             ELSE IF t = "swap" THEN d >= 1 /\ Fits(Tail(seq), d)
             ELSE d >= 1 /\ Fits(Tail(seq), d - 1)
\* the bytes `: c seq ;` adds to PMEM
RECURSIVE CodeLen(_)
CodeLen(seq) ==
    IF seq = <<>> THEN STRLEN(Ch["c"]) + SZ_IU
    ELSE (IF seq[1] \in EqNums THEN SZ_IU + SZ_DU ELSE SZ_IU) + CodeLen(Tail(seq))
\* C20: from a state between calls, not suspended and not compiling, with
\* room for the word and the stack traffic: interpreting a sequence of
\* literals and stack/arithmetic words, and calling a colon word compiled
\* from the same sequence, both return 0 and leave the same TOP and SS.
C20_CompileExecute ==
    (Idle /\ ~Yielding(VM) /\ ~compile /\ rs.idx = 0 /\ ss.idx \in 0..E4_SS_SZ
          /\ dict.idx < E4_DICT_SZ) =>
        \A seq \in EqSeqs :
            (Fits(seq, ss.idx) /\ HERE(St) + CodeLen(seq) <= E4_PMEM_SZ) =>
                LET a == forth_vm(St, Text(seq), now)
                    b == forth_vm(St, Text(<<":", "c">> \o seq \o <<";", "c">>), now)
                IN  /\ a.cs = <<>> /\ b.cs = <<>>
                    /\ a.ret = 0 /\ b.ret = 0
                    /\ a.top = b.top
                    /\ a.ss.idx = b.ss.idx
                    /\ \A i \in 0..(a.ss.idx - 1) : a.ss.v[i] = b.ss.v[i]
\* `: c 1 2 + ; c` has run on a stack holding 1: TOP is 3 above the 1
C20_FooLeavesThree ==
    /\ Idle /\ last = "+" /\ top = 3 /\ ss.idx = 2 /\ ss.v[1] = 1
    /\ IS_UDF(St, dict.idx - 1)

\* C21: in compile mode a token that find resolves to a word without the
\* immediate attribute is compiled, not executed: with room in PMEM exactly
\* one IU is appended, pfa|EXT_FLAG for a colon word and the XT offset (high
\* bit clear) for a built-in, and SS, TOP, RS and DICT are unchanged. A word
\* with the immediate attribute is executed instead: no reference to it is
\* appended.
C21_CompileAppendsOne ==
    [][(cs = <<"loop">> /\ ~resume /\ HasTok(fin) /\ compile
        /\ find(St, NextTok(fin), 0) # 0) =>
          LET w   == find(St, NextTok(fin), 0)
              c   == DictAt(St, w)
              ref == IF (c.attr % 2) = 1 THEN c.pfa + EXT_FLAG ELSE XtOff(c.xt)
              app == /\ pmem'.idx = pmem.idx + SZ_IU
                     /\ IGET(St', pmem.idx, 0) = ref
          IN  IF ((c.attr \div 2) % 2) = 0
              THEN (HERE(St) + SZ_IU <= E4_PMEM_SZ) =>
                     /\ app
                     /\ ((c.attr % 2) = 0) => ref < EXT_FLAG
                     /\ \A a \in 0..(pmem.idx - 1) : pmem'.v[a] = pmem.v[a]
                     /\ ss' = ss /\ top' = top /\ rs' = rs /\ dict' = dict
              ELSE ~app /\ last' = c.xt]_vars
\* a colon word has just been compiled into PMEM while compile is true
C21_ColonRefCompiled ==
    /\ cs = <<"after">> /\ compile /\ ss.idx = 0 /\ rs.idx = 0
    /\ \E w \in 1..(dict.idx - 1) :
          /\ IS_UDF(St, w)
          /\ IGET(St, HERE(St) - SZ_IU, 0) = DictAt(St, w).pfa + EXT_FLAG

\* the token of a small number
NumTok(n) == IF n = -1 THEN "-1" ELSE <<"0", "1", "2", "3">>[n + 1]
\* r is s with the cells of seq pushed, the last of them in TOP
Pushed(s, r, seq) ==
    /\ r.ss.idx = s.ss.idx + Len(seq)
    /\ \A j \in 0..(s.ss.idx - 1) : r.ss.v[j] = s.ss.v[j]
    /\ IF seq = <<>> THEN r.top = s.top
       ELSE /\ r.ss.v[s.ss.idx] = s.top
            /\ \A k \in 1..(Len(seq) - 1) : r.ss.v[s.ss.idx + k] = seq[k]
            /\ r.top = seq[Len(seq)]
\* a state between calls, not suspended, not compiling, RS empty, with room
\* for one more word of sz bytes and for n more cells on SS
Room(sz, n) ==
    /\ Idle /\ ~Yielding(VM) /\ ~compile /\ rs.idx = 0
    /\ ss.idx >= 0 /\ ss.idx + n <= E4_SS_SZ
    /\ dict.idx < E4_DICT_SZ
    /\ HERE(St) + sz <= E4_PMEM_SZ
\* such a state with HERE in the user area
Ready(sz, n) == Room(sz, n) /\ HERE(St) >= USER_AREA
\* C22: a FOR..NEXT loop entered with count n >= 0 runs its body n+1 times
\* with I = n, ..., 0; a DO..LOOP entered with limit L and start S < L runs
\* its body L-S times with I = S, ..., L-1; when the word returns the loop's
\* RS entries are gone. The body is `i`, so the runs are read off SS.
C22_Loops ==
    /\ \A n \in 0..2 :
          Ready(3 * SZ_DU + 4 * SZ_IU, n + 1) =>
             LET r == forth_vm(St, Text(<<":", "c", NumTok(n), "for", "i", "next",
                                          ";", "c">>), now)
             IN  /\ r.cs = <<>> /\ r.ret = 0 /\ r.rs.idx = 0
                 /\ Pushed(St, r, [k \in 1..(n + 1) |-> n + 1 - k])
    /\ \A L \in 1..3 : \A S \in 0..(L - 1) :
          Ready(4 * SZ_DU + 4 * SZ_IU, IF L - S < 2 THEN 2 ELSE L - S) =>
             LET r == forth_vm(St, Text(<<":", "c", NumTok(L), NumTok(S), "do", "i",
                                          "loop", ";", "c">>), now)
             IN  /\ r.cs = <<>> /\ r.ret = 0 /\ r.rs.idx = 0
                 /\ Pushed(St, r, [k \in 1..(L - S) |-> S + k - 1])
\* `: a 2 for i next ; a` has run on the empty stack: 2 1 0 were pushed and
\* RS is empty again
C22_CountedDown ==
    /\ Idle /\ last = "i" /\ rs.idx = 0
    /\ ss.idx = 3 /\ ss.v[1] = 2 /\ ss.v[2] = 1 /\ top = 0

\* C23: in a word compiled from `if 1 else 2 then dup`, the flag is consumed;
\* a non-zero flag runs the IF part and skips the ELSE part, a zero flag
\* does the opposite, and either way the word goes on after THEN (dup).
C23_Branching ==
    \A f \in {0, 1, 3} :
        Ready(2 * SZ_DU + 8 * SZ_IU, 2) =>
            LET r == forth_vm(St, Text(<<":", "c", "if", "1", "else", "2", "then", "dup",
                                         ";", NumTok(f), "c">>), now)
            IN  /\ r.cs = <<>> /\ r.ret = 0 /\ r.rs.idx = 0
                /\ Pushed(St, r, IF f # 0 THEN <<1, 1>> ELSE <<2, 2>>)
\* `: a if 1 else 2 then dup ; 0 a` has run on the empty stack: 2 2
C23_ElseTaken ==
    /\ Idle /\ last = "dup" /\ rs.idx = 0
    /\ ss.idx = 2 /\ ss.v[1] = 2 /\ top = 2

\* C24: wherever in PMEM the words are created, `variable c n c ! c @`
\* leaves n and `n constant c c` leaves n.
C24_VarConstRoundTrip ==
    \A n \in {0, 3, -1} :
        Room(2 * SZ_DU + 4 * SZ_IU, 2) =>
            LET r == forth_vm(St, Text(<<"variable", "c", NumTok(n), "c", "!", "c", "@">>), now)
                q == forth_vm(St, Text(<<NumTok(n), "constant", "c", "c">>), now)
            IN  /\ r.cs = <<>> /\ r.ret = 0 /\ Pushed(St, r, <<n>>)
                /\ q.cs = <<>> /\ q.ret = 0 /\ Pushed(St, q, <<n>>)

\* C25: `create c c` leaves the address of c's data field and returns;
\* after `: c create , does> @ ;` and `3 c a`, the word a leaves 3 (its data
\* address, then the DOES> body `@`, returning at the body's EXIT).
C25_CreateDoes ==
    (Room(2 * SZ_DU + 10 * SZ_IU, 1) /\ dict.idx + 2 <= E4_DICT_SZ) =>
        LET r == forth_vm(St, Text(<<"create", "c", "c">>), now)
            q == forth_vm(St, Text(<<":", "c", "create", ",", "does>", "@", ";",
                                     "3", "c", "a", "a">>), now)
            p == ListAt(r.dict, E4_DICT_SZ, -1, NullCode).pfa
        IN  /\ r.cs = <<>> /\ r.ret = 0 /\ r.dict.idx = dict.idx + 1
            /\ Pushed(St, r, <<DALIGN(p + 2 * SZ_IU)>>)
            /\ r.pmem.idx = DALIGN(p + 2 * SZ_IU)
            /\ q.cs = <<>> /\ q.ret = 0 /\ q.dict.idx = dict.idx + 2
            /\ Pushed(St, q, <<3>>)
\* the line `: c create , does> @ ; 3 c a a` has returned with 3 in TOP
C25_DoesBodyRan ==
    /\ Idle /\ last = "@" /\ rs.idx = 0 /\ ss.idx = 1 /\ top = 3
    /\ \E w \in 0..(dict.idx - 1) :
           /\ IS_UDF(St, w)
           /\ IGET(St, DictAt(St, w).pfa, 0) = VBRAN
           /\ IGET(St, DictAt(St, w).pfa + SZ_IU, 0) # 0

\* the cells the laws are tried on
Cells == {1, -1, 2147483647}
CellTok(n) == IF n = 2147483647 THEN "2147483647" ELSE NumTok(n)
\* the state after the line of tokens toks
After(toks) == forth_vm(St, Text(toks), now)
\* r and q hold the same stacks: SS and RS up to their tops, and TOP
SameStacks(r, q) ==
    /\ r.top = q.top /\ r.ss.idx = q.ss.idx /\ r.rs.idx = q.rs.idx
    /\ \A j \in 0..(r.ss.idx - 1) : r.ss.v[j] = q.ss.v[j]
    /\ \A j \in 0..(r.rs.idx - 1) : r.rs.v[j] = q.rs.v[j]
\* C26: on a stack holding a and b on top of what was there, `dup drop`,
\* `swap swap` and `>r r>` leave SS, TOP and RS as they were, and
\* `over over` leaves what `2dup` leaves: a b a b.
C26_StackLaws ==
    \A a, b \in Cells :
        LET ab == <<CellTok(a), CellTok(b)>>
            r  == After(ab)
        IN  /\ Room(0, 3) =>
                  /\ Pushed(St, r, <<a, b>>) /\ r.rs.idx = 0
                  /\ SameStacks(After(ab \o <<"dup", "drop">>), r)
                  /\ SameStacks(After(ab \o <<"swap", "swap">>), r)
                  /\ SameStacks(After(ab \o <<">r", "r>">>), r)
            /\ Room(0, 4) =>
                  /\ SameStacks(After(ab \o <<"over", "over">>), After(ab \o <<"2dup">>))
                  /\ Pushed(St, After(ab \o <<"over", "over">>), <<a, b, a, b>>)
\* the line `1 3 over over` has returned with 1 3 1 3 on the stack
C26_OverOver ==
    /\ Idle /\ last = "over" /\ ss.idx = 4 /\ top = 3
    /\ ss.v[1] = 1 /\ ss.v[2] = 3 /\ ss.v[3] = 1

\* the cells the arithmetic laws are tried on
Operands == {-1, 3, 65537, 2147483647}
OperandTok(n) == IF n = 65537 THEN "65537" ELSE IF n = 3 THEN "3" ELSE CellTok(n)
\* C27: for operands a and b pushed by the interpreter, `a b op` and
\* `b a op` leave the same stacks for op in + * and or xor, with
\* wrap-around at 32 bits, and `a b - b +` leaves a.
C27_ArithmeticLaws ==
    Room(0, 2) =>
        \A a, b \in Operands :
            LET ta == OperandTok(a)
                tb == OperandTok(b)
            IN  /\ \A op \in {"+", "*", "and", "or", "xor"} :
                       /\ SameStacks(After(<<ta, tb, op>>), After(<<tb, ta, op>>))
                       /\ After(<<ta, tb, op>>).ss.idx = ss.idx + 1
                /\ Pushed(St, After(<<ta, tb, "-", tb, "+">>), <<a>>)
\* the line `2147483647 3 *` has returned with the wrapped product
C27_WrappedProduct ==
    /\ Idle /\ last = "*" /\ ss.idx = 1 /\ top = 2147483645 /\ rs.idx = 0

\* the number tokens tried, with the value each has under DECIMAL and under
\* HEX as a sequence of one cell; Rej marks a token that is not a number in
\* that base
Rej == <<>>
NumCases == {
    <<"%11", <<3>>, <<3>>>>, <<"#12", <<12>>, <<12>>>>, <<"&12", <<12>>, <<12>>>>,
    <<"$1f", <<31>>, <<31>>>>, <<"$-f", <<-15>>, <<-15>>>>, <<"-1", <<-1>>, <<-1>>>>,
    <<"12", <<12>>, <<18>>>>, <<"1f", Rej, <<31>>>>, <<"0x1f", Rej, <<31>>>>,
    <<"%12", Rej, Rej>>, <<"#1f", Rej, Rej>>, <<"1g", Rej, Rej>>
}
\* the line reported tok as unknown
Rejected(r, tok) == \E k \in 1..Len(r.fout) : r.fout[k] = <<Ch[tok], "?">>
\* the line `mode tok` pushed v, or reported tok when v is Rej
ParsedAs(mode, tok, v) ==
    LET r == After(<<mode, tok>>)
    IN  IF v = Rej THEN Rejected(r, tok)
        ELSE ~Rejected(r, tok) /\ Pushed(St, r, v)
\* some character of tok after its base prefix is not a digit of the base
\* tok is parsed in when BASE is b
NonDigit(tok, b) ==
    LET r  == NumRest(Ch[tok])
        pb == IF Ch[tok][1] = 37 THEN 2
              ELSE IF Ch[tok][1] \in {38, 35} THEN 10
              ELSE IF Ch[tok][1] = 36 THEN 16 ELSE b
    IN  \E k \in 1..Len(r) : DigitVal(r[k]) >= pb
\* C28 as stated: a token that is not a word is reported as unknown whenever
\* one of its characters (after the base prefix) is not a digit of the base.
C28_OnlyDigits ==
    Room(0, 1) =>
        \A c \in NumCases :
            find(St, Ch[c[1]], 0) = 0 =>
                /\ NonDigit(c[1], 10) => Rejected(After(<<"decimal", c[1]>>), c[1])
                /\ NonDigit(c[1], 16) => Rejected(After(<<"hex", c[1]>>), c[1])
\* C28: a token that is not a word and starts with % is read in base 2, with
\* & or # in base 10, with $ in base 16, whatever BASE is; any other token is
\* read in the BASE set by `decimal` or `hex`; after the prefix a sign is
\* accepted, and in base 16 a 0x; the token is reported as unknown when a
\* character after those is not a digit of the base; a token that names a
\* word runs the word, digits or not.
C28_NumberParsing ==
    /\ Room(0, 1) =>
          \A c \in NumCases :
              find(St, Ch[c[1]], 0) = 0 =>
                  ParsedAs("decimal", c[1], c[2]) /\ ParsedAs("hex", c[1], c[3])
    /\ Room(2 * SZ_DU + 2 * SZ_IU, 1) =>
          /\ Pushed(St, After(<<":", "12", ";", "12">>), <<>>)
          /\ Pushed(St, After(<<"hex", ":", "1f", "3", ";", "1f">>), <<3>>)
\* in the line `hex %11 1f decimal`, %11 was read as 3 and 1f as 31
C28_BinaryUnderHex ==
    /\ cs = <<"loop">> /\ IGET(St, base, 0) = 16 /\ NextTok(fin) = Ch["decimal"]
    /\ ss.idx >= 2 /\ ss.v[ss.idx - 1] = 3 /\ top = 31

\* the addresses stored to: the first cell of the dictionary area, an odd
\* address, the last cell of PMEM
CellAddrs == {<<"16", 16>>, <<"$1f", 31>>, <<"44", 44>>}
\* C29: `a @` leaves the 16-bit IU at a for a below USER_AREA; for a cell
\* address a of PMEM at or above USER_AREA and every n, `n a ! a @` leaves n,
\* and `n a !` changes no byte of PMEM outside a .. a+3, nor HERE.
C29_StoreFetch ==
    Room(0, 2) =>
        /\ Pushed(St, After(<<"0", "@">>), <<IGET(St, 0, 0)>>)
        /\ Pushed(St, After(<<"12", "@">>), <<IGET(St, 12, 0)>>)
        /\ \A c \in CellAddrs : \A n \in Operands :
               LET r == After(<<OperandTok(n), c[1], "!", c[1], "@">>)
                   q == After(<<OperandTok(n), c[1], "!">>)
               IN  /\ c[2] >= USER_AREA /\ c[2] + SZ_DU <= E4_PMEM_SZ
                   /\ Pushed(St, r, <<n>>)
                   /\ Pushed(St, q, <<>>)
                   /\ q.pmem.idx = pmem.idx
                   /\ \A x \in 0..(E4_PMEM_SZ - 1) :
                          x \notin c[2]..(c[2] + SZ_DU - 1) => q.pmem.v[x] = pmem.v[x]
                   /\ CELL(q, c[2], 0) = n
\* the line `65537 $1f ! 0 @` has returned: the cell at 31 holds 65537 and
\* TOP the 16-bit BASE read at 0
C29_WideAndNarrow ==
    /\ Idle /\ last = "@" /\ CELL(St, 31, 0) = 65537 /\ top = IGET(St, 0, 0)
    /\ top = 10 /\ ss.idx >= 1

\* the characters of the string in `s" ab"`
AB == <<97, 98>>
\* C30: not compiling, `s" ab"` and `." ab"` push the old HERE and then the
\* length STRLEN gives, write the string at the old HERE, and leave HERE,
\* dict.idx and every byte of PMEM below the old HERE unchanged; compiling,
\* `s" ab"` appends STR and the string, `." ab"` DOTQ and the string, and
\* the stack is left alone.
C30_StringLiteral ==
    Room(STRLEN(AB) + STRLEN(<<99>>) + 2 * SZ_IU, 2) =>
        /\ \A q \in {"s\"", ".\""} :
               LET r == After(<<q, "ab\"">>)
                   c == After(<<":", "c", q, "ab\"", ";">>)
                   p == ListAt(c.dict, E4_DICT_SZ, -1, NullCode).pfa
               IN  /\ Pushed(St, r, <<HERE(St), STRLEN(AB)>>)
                   /\ r.pmem.idx = pmem.idx /\ r.dict.idx = dict.idx
                   /\ \A x \in 0..(HERE(St) - 1) : r.pmem.v[x] = pmem.v[x]
                   /\ CStr(r, HERE(St), 0) = AB
                   /\ r.cs = <<>> /\ r.ret = 0
                   /\ Pushed(St, c, <<>>) /\ ~c.compile
                   /\ c.dict.idx = dict.idx + 1
                   /\ IGET(c, p, 0) = (IF q = "s\"" THEN STR ELSE DOTQ)
                   /\ CStr(c, p + SZ_IU, 0) = AB
                   /\ IGET(c, p + SZ_IU + STRLEN(AB), 0) = EXIT
                   /\ c.pmem.idx = p + 2 * SZ_IU + STRLEN(AB)
\* the line `s" ab"` has returned: the address and the length are on the
\* stack and the string lies at HERE
C30_Transient ==
    /\ Idle /\ last = "s\"" /\ ss.idx >= 2 /\ top = STRLEN(AB)
    /\ ss.v[ss.idx - 1] = HERE(St) /\ CStr(St, HERE(St), 0) = AB

\* forth_vm on a line that includes scripts, from the current state
AfterIncluded(toks) == forth_vm_included(St, Text(toks), now)

\* C31: after `included` returns, the buffer index, the rest of the input
\* line and RS are what they were, and the including line or colon word
\* goes on: `s" ab" included 1` leaves the script's 2 and then 1, and
\* `: a s" ab" included dup ; 3 a` leaves 3, the script's 2 and its copy; a
\* script with an unknown word and a missing file leave the rest of the line
\* to run as well.
C31_IncludeRestores ==
    (Room(STRLEN(AB) + STRLEN(<<97>>) + 4 * SZ_IU, 3)
        /\ HERE(St) + STRLEN(AB) + STRLEN(<<97>>) + 4 * SZ_IU <= E4_PMEM_SZ - 16) =>
        LET t == AfterIncluded(<<"s\"", "ab\"", "included", "1">>)
            e == AfterIncluded(<<"s\"", "b\"", "included", "1">>)
            f == AfterIncluded(<<"s\"", "c\"", "included", "1">>)
            w == AfterIncluded(<<":", "a", "s\"", "ab\"", "included", "dup", ";", "3", "a">>)
        IN  /\ Pushed(St, t, <<2, 1>>) /\ t.bidx = bidx /\ t.rs.idx = 0 /\ t.cs = <<>>
            /\ e.top = 1 /\ e.bidx = bidx /\ e.rs.idx = 0 /\ e.cs = <<>>
            /\ Pushed(St, f, <<1>>) /\ f.bidx = bidx /\ f.rs.idx = 0 /\ f.cs = <<>>
            /\ Pushed(St, w, <<3, 2, 2>>) /\ w.bidx = bidx /\ w.rs.idx = 0 /\ w.cs = <<>>

\* C32: AES-CTR xcrypt is its own inverse: whatever the key, the IV and
\* the buffer (of any length, a multiple of 16 or not), running xcrypt on
\* the buffer from a fresh context and then again from a second fresh
\* context built with the same key and IV gives the buffer back; and the
\* first run on test_ctr's reference ciphertext gives its reference plaintext.
C32_XcryptInverse ==
    /\ aes.pc = "done" => aes.buf = aes.in
    /\ (aes.pc = "new" /\ aes.pass = 2 /\ aes.key0 = test_key
            /\ aes.iv0 = test_iv /\ aes.in = test_in) => aes.buf = test_out
\* the reference ciphertext went to the plaintext and back
C32_ReferenceRoundTrip ==
    /\ aes.pc = "done" /\ aes.key0 = test_key /\ aes.iv0 = test_iv
    /\ aes.in = test_in /\ aes.arg = test_out /\ aes.buf = test_in

\* iv + c as a 128-bit big-endian integer modulo 2^128: the bytes from
\* pos down to the first absorb the carry c
RECURSIVE Add128(_, _, _)
Add128(iv, pos, c) ==
    IF pos = 0 THEN iv
    ELSE LET v == iv[pos] + c
         IN  Add128([iv EXCEPT ![pos] = v % 256], pos - 1, v \div 256)

\* C37: within one xcrypt call, the k-th keystream block (k from 0) is made
\* from the IV value initial + k, the context's IV has been incremented once
\* per block started, as a 128-bit big-endian integer modulo 2^128 (all 0xff
\* wraps to all zero), and byte i of the buffer has been XORed with byte
\* i mod 16 of block floor(i / 16).
C37_Counter ==
    aes.pc = "xcrypt" =>
        /\ aes.bi % 16 = aes.i % 16
        /\ Len(aes.src) = (aes.i - aes.bi + 16) \div 16
        /\ Len(aes.ks) = Len(aes.src)
        /\ \A m \in 1..Len(aes.src) : aes.src[m] = Add128(aes.iv0, 16, m - 1)
        /\ aes.iv = Add128(aes.iv0, 16, Len(aes.ks))
        /\ \A j \in 0..(aes.i - 1) :
            At(aes.buf, j) = Xor8(At(aes.arg, j), At(aes.ks[j \div 16 + 1], j % 16))
\* the counter wrapped from all 0xff to zero and went on to two
C37_Wrapped ==
    /\ aes.pc = "xcrypt" /\ aes.i = 33
    /\ aes.iv0 = [k \in 1..16 |-> 255]
    /\ aes.src = <<[k \in 1..16 |-> 255], [k \in 1..16 |-> 0],
                   [k \in 1..16 |-> IF k = 16 THEN 1 ELSE 0]>>
    /\ aes.iv = [k \in 1..16 |-> IF k = 16 THEN 2 ELSE 0]

\* the line of tokens toks driven to its end: forth_vm called again while it
\* returns non-zero
Driven(toks) == drive(St, Text(toks), MaxCalls)
\* r is a finished call that left SS and TOP with seq pushed and RS d deep
Finished(r, seq, d) ==
    /\ r.cs = <<>> /\ r.ret = 0 /\ r.VM = "STOP" /\ r.IP = 0
    /\ r.rs.idx = d /\ Pushed(St, r, seq)
\* words that balance FOR/NEXT, DO/LOOP and >R/R>, called one to three
\* levels deep, on an empty RS and on an RS one deep
Balanced ==
    /\ Ready(3 * STRLEN(Ch["a"]) + 6 * SZ_IU, 0) =>
          Finished(Driven(<<":", "c", ";", ":", "b", "c", "c", ";", ":", "a", "b", ";", "a">>),
                   <<>>, 0)
    /\ Ready(STRLEN(Ch["a"]) + SZ_DU + 9 * SZ_IU, 2) =>
          LET r == Driven(<<":", "a", "0", "for", "dup", ">r", "r>", "drop", "next", ";",
                            "3", ">r", "a">>)
          IN  Finished(r, <<>>, 1) /\ r.rs.v[0] = 3
    /\ Ready(2 * STRLEN(Ch["a"]) + 2 * SZ_DU + 8 * SZ_IU, 2) =>
          Finished(Driven(<<":", "c", "2", "0", "do", "loop", ";", ":", "b", "c", "c", ";",
                            "1", "b">>), <<1>>, 0)
\* one step of the protocol: the outer interpreter calling a colon word, a
\* colon reference inside a running word, and EXIT
CallStep ==
    /\ (/\ cs = <<"loop">> /\ ~resume /\ HasTok(fin) /\ ~compile
        /\ rs.idx \in 0..(E4_RS_SZ - 1)
        /\ find(St, NextTok(fin), 0) # 0
        /\ IS_UDF(St, find(St, NextTok(fin), 0))) =>
            /\ rs'.idx = rs.idx + 1 /\ rs'.v[rs.idx] = 0
            /\ IP' = DictAt(St, find(St, NextTok(fin), 0)).pfa
            /\ VM' = "NEST"
    /\ (/\ cs # <<>> /\ cs[Len(cs)] = "nest" /\ VM = "NEST" /\ IP # 0
        /\ steps < MaxSteps /\ IGET(St, IP, 0) >= MAX_OP
        /\ rs.idx \in 0..(E4_RS_SZ - 1)) =>
            /\ rs'.idx = rs.idx + 1 /\ rs'.v[rs.idx] = U16(IP + SZ_IU)
            /\ IP' = IGET(St, IP, 0) - EXT_FLAG
            /\ VM' = "NEST"
    /\ (/\ cs # <<>> /\ cs[Len(cs)] = "nest" /\ VM = "NEST" /\ IP # 0
        /\ steps < MaxSteps /\ IGET(St, IP, 0) = EXIT
        /\ rs.idx \in 1..E4_RS_SZ) =>
            /\ rs'.idx = rs.idx - 1
            /\ IP' = U16(rs.v[rs.idx - 1])
            /\ VM' = IF U16(rs.v[rs.idx - 1]) # 0 THEN "HOLD" ELSE "STOP"
\* C33: a colon word called by the outer interpreter gets the sentinel 0
\* pushed on RS, a colon reference inside a word pushes the address of the IU
\* after it, EXIT pops RS into IP and sets HOLD for a non-zero address and
\* STOP (IP = 0) for the sentinel; and a word whose body and callees balance
\* their loops and >r r> finishes, at every nesting depth tried, with RS as
\* deep as before the call.
C33_CallReturn == []Balanced /\ [][CallStep]_vars
\* `: c ; : b c c ; b` is inside c, called from b, called from the line:
\* RS holds the sentinel and the return address into b
C33_TwoDeep ==
    /\ cs = <<"after", "nest">> /\ VM = "NEST" /\ rs.idx = 2
    /\ rs.v[0] = 0 /\ rs.v[1] # 0 /\ IGET(St, IP, 0) = EXIT

\* the strings compiled inline, with the token that closes each
Inline == {<<Ch["b"], "b\"">>, <<AB, "ab\"">>, <<Ch["c"], "c\"">>}
\* C34: for a word compiled as `: c <op> <string>" dup ;` with op one of
\* s" and .", the body is the opcode, STRLEN(string) bytes that begin with
\* the string and its NUL, and then the IUs of dup and EXIT; executing the
\* opcode at run time moves IP over exactly those bytes, onto the IU of dup;
\* STR pushes the address of the string and then STRLEN(string), DOTQ
\* prints the string and pushes nothing.
C34_InlineString ==
    \A x \in Inline : \A op \in {"s\"", ".\""} :
        Ready(STRLEN(Ch["c"]) + STRLEN(x[1]) + 3 * SZ_IU, 2) =>
            LET q   == After(<<":", "c", op, x[2], "dup", ";">>)
                pfa == DictAt(q, q.dict.idx - 1).pfa
                str == pfa + SZ_IU
                nxt == str + STRLEN(x[1])
            IN  /\ q.cs = <<>> /\ ~q.compile /\ q.dict.idx = dict.idx + 1
                /\ IGET(q, pfa, 0) = (IF op = "s\"" THEN STR ELSE DOTQ)
                /\ \A g \in Garbage : CStr(q, str, g) = x[1]
                /\ IGET(q, nxt, 0) = XtOff("dup")
                /\ IGET(q, nxt + SZ_IU, 0) = EXIT
                /\ HERE(q) = nxt + 2 * SZ_IU
                /\ \A g \in Garbage :
                      LET n == NestOp([q EXCEPT !.IP = pfa, !.VM = "NEST"], g)
                      IN  /\ n.IP = nxt /\ n.VM = "NEST"
                          /\ IF op = "s\""
                             THEN Pushed(q, n, <<str, STRLEN(x[1])>>) /\ n.fout = q.fout
                             ELSE Pushed(q, n, <<>>)
                                  /\ n.fout = Append(q.fout, <<x[1], "dotq">>)
\* `: a ." ab" dup drop ; a` is running: DOTQ has printed ab and IP stands
\* on the IU of dup, four bytes after the string's first
C34_PastTheString ==
    /\ cs = <<"after", "nest">> /\ VM = "NEST"
    /\ fout # <<>> /\ fout[Len(fout)] = <<AB, "dotq">>
    /\ IGET(St, IP, 0) = XtOff("dup")
    /\ IGET(St, IP - STRLEN(AB) - SZ_IU, 0) = DOTQ

\* the steps one call of forth_vm may take
MaxSlice == 60
\* one call of forth_vm from after its entry to its return, millis()
\* answering ts[1], ts[2], ... at the successive calls of time_up (the last
\* reading again once they are used up): the state and the readings left
RECURSIVE Slice(_, _, _)
Slice(s, ts, n) ==
    IF n = 0 \/ s.cs = <<>> \/ s.cs = <<"trap">> THEN <<s, ts>>
    ELSE LET c == s.cs[Len(s.cs)]
         IN  IF c = "include" THEN <<s, ts>>
             ELSE IF c = "after" /\ s.VM = "HOLD"
             THEN Slice(vm_after(s, ts[1]), IF Len(ts) > 1 THEN Tail(ts) ELSE ts, n - 1)
             ELSE Slice(IF c = "loop" THEN vm_loop(s, 0)
                        ELSE IF c = "after" THEN vm_after(s, 0)
                        ELSE IF c = "exit" THEN vm_exit(s)
                        ELSE nest_step(s, 0), ts, n - 1)
\* the driver's `while (forth_vm(cmd));`, k bounding the re-entries
RECURSIVE Sliced(_, _, _, _)
Sliced(s, line, ts, k) ==
    LET r == Slice(vm_enter(s, line, 0), ts, MaxSlice)
    IN  IF r[1].ret = 0 \/ r[1].cs # <<>> \/ k = 0 THEN r[1]
        ELSE Sliced(r[1], line, r[2], k - 1)
\* the clock readings of one line: non-decreasing, from now on
MaxClock == 3
Readings ==
    {ts \in [1..3 -> now..MaxClock] : \A k \in 1..2 : ts[k] <= ts[k + 1]}
\* the outcome of a line: what C35 compares
Outcome(r) ==
    [ss |-> [j \in 0..(r.ss.idx - 1) |-> r.ss.v[j]], top |-> r.top, rs |-> r.rs.idx,
     dict |-> r.dict, pmem |-> r.pmem, base |-> r.base, compile |-> r.compile,
     ret |-> r.ret, cs |-> r.cs]
\* lines on which time_up is consulted: a callee returns into its caller
\* three times at one level of nesting, twice at two levels
Sliceable == {
    <<":", "c", ";", ":", "b", "c", "c", "c", ";", "b", "2">>,
    <<":", "c", ";", ":", "b", "c", ";", ":", "a", "b", ";", "a", "2">>
}
\* C35: for a line driven until forth_vm returns zero, the final SS, TOP, RS
\* depth, DICT, PMEM, BASE and compile flag are the same for every sequence
\* of clock readings, that is whichever of its time_up calls answer yes.
C35_SliceIndependent ==
    Ready(3 * STRLEN(Ch["c"]) + 5 * SZ_IU, 1) =>
        \A toks \in Sliceable : \A ts \in Readings :
            LET r == Sliced(St, Text(toks), ts, Len(ts))
                q == Sliced(St, Text(toks), <<now>>, Len(ts))
            IN  /\ r.cs = <<>> /\ r.ret = 0
                /\ Outcome(r) = Outcome(q)
\* a line was suspended by the time slice, resumed, and has returned zero
C35_ResumedAndDone ==
    /\ Idle /\ "resumed" \in ev /\ ret = 0 /\ VM = "STOP" /\ rs.idx = 0 /\ calls >= 2

\* C36: b is compiled with a reference to a (a colon word) or to dup (a
\* built-in), and that word is then redefined. The IU in b still holds the
\* old pfa with the colon flag, or the built-in's offset; every PMEM byte
\* and every DICT entry that existed before the redefinition is unchanged;
\* b runs the old body while the name itself now runs the new one.
C36_NoRebinding ==
    /\ Ready(3 * STRLEN(Ch["a"]) + 2 * SZ_DU + 4 * SZ_IU, 2) =>
          LET d == After(<<":", "a", "1", ";", ":", "b", "a", ";">>)
              q == After(<<":", "a", "1", ";", ":", "b", "a", ";", ":", "a", "2", ";">>)
              r == Driven(<<":", "a", "1", ";", ":", "b", "a", ";", ":", "a", "2", ";",
                            "b", "a">>)
              a == DictAt(d, d.dict.idx - 2)
              b == DictAt(d, d.dict.idx - 1)
          IN  /\ q.dict.idx = d.dict.idx + 1 /\ find(q, Ch["a"], 0) = d.dict.idx
              /\ DictAt(q, d.dict.idx).pfa # a.pfa
              /\ \A i \in 0..(d.dict.idx - 1) : DictAt(q, i) = DictAt(d, i)
              /\ \A x \in 0..(HERE(d) - 1) : q.pmem.v[x] = d.pmem.v[x]
              /\ IGET(q, b.pfa, 0) = a.pfa + EXT_FLAG
              /\ Finished(r, <<1, 2>>, 0)
    /\ Ready(STRLEN(Ch["b"]) + STRLEN(Ch["dup"]) + SZ_DU + 4 * SZ_IU, 3) =>
          LET d == After(<<":", "b", "dup", ";">>)
              q == After(<<":", "b", "dup", ";", ":", "dup", "3", ";">>)
              r == Driven(<<":", "b", "dup", ";", ":", "dup", "3", ";", "2", "b">>)
              n == Driven(<<":", "b", "dup", ";", ":", "dup", "3", ";", "2", "dup">>)
              b == DictAt(d, d.dict.idx - 1)
          IN  /\ q.dict.idx = d.dict.idx + 1 /\ find(q, Ch["dup"], 0) = d.dict.idx
              /\ \A i \in 0..(d.dict.idx - 1) : DictAt(q, i) = DictAt(d, i)
              /\ \A x \in 0..(HERE(d) - 1) : q.pmem.v[x] = d.pmem.v[x]
              /\ IGET(q, b.pfa, 0) = XtOff("dup")
              /\ Finished(r, <<2, 2>>, 0)
              /\ Finished(n, <<2, 3>>, 0)
\* `: a 1 ; : b a ; : a 2 ; b drop` is running b, which has called the old
\* a: its literal 1 is in TOP while find answers the new a
C36_OldBodyRuns ==
    /\ cs = <<"after", "nest">> /\ VM = "NEST" /\ rs.idx = 2 /\ top = 1
    /\ find(St, Ch["a"], 0) = dict.idx - 1
    /\ IS_UDF(St, dict.idx - 3) /\ NameOf(St, DictAt(St, dict.idx - 3).name, 0) = Ch["a"]
    /\ IP > DictAt(St, dict.idx - 3).pfa /\ IP < DictAt(St, dict.idx - 2).pfa
====
